---- MODULE Spec2Model ----
(***************************************************************************)
(* deskinfopoint: the shared state bus (state.py), the alert evaluator     *)
(* (alerts.py) and the button poller and dispatcher (hardware/buttons.py), *)
(* with the callers of the bus in the worker threads of app.py.            *)
(*                                                                         *)
(* Numbers: a brightness is kept in thousandths (1.0 is 1000, 0.05 is 50), *)
(* sensor and messaging numbers are integers.  A Python value that is a    *)
(* float, a str or None is a record [t, n, s] (Num, Str, None below).      *)
(***************************************************************************)
EXTENDS Integers, Sequences, FiniteSets, TLC

\* ------------------------------------------------------------------ values

None == [t |-> "none", n |-> 0, s |-> ""]
Num(x) == [t |-> "num", n |-> x, s |-> ""]
Str(x) == [t |-> "str", n |-> 0, s |-> x]

Max(a, b) == IF a >= b THEN a ELSE b
Min(a, b) == IF a <= b THEN a ELSE b

\* ------------------------------------------------------------------ bounds

\* screen_count ranges over 1..MaxScreens
MaxScreens == 3
\* mutator calls started in one behaviour of the bus specification
MaxMutations == 2
\* rules in a rule list of more than one rule
MaxRules == 2
\* the poll loop reads a button at most MaxCount times in a row with one value
MaxCount == 3
\* presses dispatched in one behaviour of the button specification
MaxPresses == 2
\* exceptions render() and display() raise in one behaviour of the render loop
MaxRaises == 2
\* attempts of the sensor's initialisation loop
MaxAttempts == 2
\* bus mutations in one behaviour of the threads of App.run
MaxLifeMutations == 1
\* publish requests of a run of the messaging client
MaxPublishes == 2
\* callbacks of the messaging client in a run
MaxMqttEvents == 3
MaxSets == 2
MaxDirectPresses == 2
MaxConfigScreens == 3

\* ------------------------------------------------------------------ state

VARIABLES
    \* SharedState (state.py)
    lock,            \* owner of _lock, or NoOwner
    sensor,          \* _sensor: the current SensorReading
    mqtt,            \* _mqtt: sub_id -> value, None where the key is absent
    current_screen,  \* _current_screen
    screen_count,    \* _screen_count
    brightness,      \* _brightness, in thousandths
    version,         \* _version
    \* the workers calling the bus
    pc,              \* worker -> position inside the bus method it is in
    op,              \* worker -> the call it is in
    tmp,             \* worker -> the version it loaded for `+= 1`
    ret,             \* worker -> the value its method is about to return
    \* observation of the bus
    started,         \* mutator calls started by the workers
    completed,       \* mutator calls that have returned, the constructor's included
    writes,          \* the (co2, temperature, humidity) of every update_sensor call
    lastRet,         \* the call that returned in the last step, or NoRet
    lastIo,          \* the I/O performed in the last step, or NoIo
    lastNav,         \* the last completed change of the screen index
    \* AlertEvaluator (alerts.py)
    alerts,          \* the rules as declared in the configuration
    order,           \* _alerts: the declared positions, sorted at construction
    alertOut,        \* what the last active_alert() call did, or NoOut
    \* ButtonHandler (hardware/buttons.py) and what it drives
    prev_state,      \* button -> the raw reading of the previous poll
    stable_state,    \* button -> the debounced reading
    counts,          \* button -> the number of consecutive identical readings
    pos,             \* the position of the poll loop in ButtonNames
    screens,         \* the screen list: the type of each screen
    buttons,         \* the static table: button -> action
    backlight,       \* the value of the last set_backlight call, in thousandths
    publish_queue,   \* MQTTClient._publish_queue
    \* observation of the button poller
    hist,            \* button -> its last two raw readings
    sincePress,      \* button -> "never", "held" or "released" since its last press
    presses,         \* presses dispatched
    lastPress,       \* the press dispatched in the last step, or NoPress
    \* the shutdown event of App (app.py)
    shutdown,        \* _shutdown.is_set()
    \* DisplayController._run (hardware/display.py)
    r_pc,            \* the position of the render loop
    seen_version,    \* its local `version`
    last_version,    \* its local `last_version`
    idx,             \* its local `idx`
    image,           \* its local `image`
    display_frame,   \* the frame the display shows
    \* observation of the render loop
    raises,          \* exceptions raised by render() and display()
    iter,            \* what the current iteration of the loop has done
    mutated,         \* a mutator call completed since the loop last read the version
    \* App._persist_watcher (app.py) and persistence.save
    w_pc,            \* the position of the watcher
    w_screen,        \* the screen it read for the tuple it is building
    w_current,       \* its local `current`
    w_last,          \* its local `last`
    state_file,      \* the tuple of the last persistence.save call
    \* observation of the watcher
    w_saves,         \* save calls made by the watcher
    lastPoll,        \* what its last comparison did: "none", "saved" or "skipped"
    s_changes,       \* changes of the screen since the watcher's first tuple
    b_changes,       \* changes of the brightness since the watcher's first tuple
    due,             \* the changes that precede the reads of its latest tuple
    \* App.run and the threads it starts (app.py, hardware/led.py, sensors/scd30.py)
    t_pc,            \* thread -> position
    led_cfgs,        \* the configurations the animator can find active
    attempt,         \* `attempt` of the sensor's initialisation loop
    last_solid_rgb,  \* `_last_solid_rgb` of the LED animator
    led_sink,        \* the (r, g, b) of the last set_led call
    m_screen,        \* the screen the main thread read for the final save
    \* observation of the threads
    led_last,        \* who made the last set_led call: "animation", "off" or "main"
    led_offs,        \* (0, 0, 0) commands the animator issued after its loop
    late_cmds,       \* 1 once a worker has driven a sink the main thread forced off
    full_sleeps,     \* 1 once a wait has run to its timeout with the event set
    final_saved,     \* the tuple of the save call of run()
    final_saves,     \* save calls made by run()
    \* MQTTClient and paho's network thread
    n_pc,            \* where the network thread is: "idle", "drain" or "publish"
    held,            \* the (topic, payload) get_nowait returned
    sent,            \* the requests handed to client.publish, in order
    connected,       \* the client is connected to the broker
    subscribed,      \* the topics passed to client.subscribe
    \* observation of the callbacks
    published,       \* calls of publish()
    events,          \* callbacks that have started
    ev,              \* the last callback: its kind, the queue when it started, its end
    \* a caller of the getters
    got,             \* the value the caller holds and what it did in the last step
    \* LEDController._run, statement by statement (hardware/led.py)
    led_idle,        \* `self._idle`
    led_loc,         \* the locals of the iteration: the snapshot and `alert`
    led_obs,         \* what the current and the previous iteration resolved and did
    \* ha_prefetch.prefetch, called by App.run
    pf,              \* where prefetch is and the subscriptions it has gone through
    \* observation of the fallible steps
    fault,           \* the last step of a worker: whose, what it raised, what became of it
    \* App.__init__ (app.py)
    boot,            \* the configured screens and how far the construction has come
    \* observation of the frames of the render loop
    drawn,           \* the bus version at which idx was read: for `image`, for the pushed frame
    \* observation of active_alert
    during,          \* the (sensor, mqtt) contents of the bus since the call began
    \* the files of persistence.save
    fs,              \* the temporary file, the open files of the callers
    \* ButtonHandler._on_press among the other workers
    offer            \* the press in hand: its button, the values it has read

busVars == <<lock, sensor, mqtt, current_screen, screen_count, brightness, version>>
workerVars == <<pc, op, tmp, ret>>
obsVars == <<started, completed, writes, lastRet, lastIo, lastNav>>
alertVars == <<alerts, order, alertOut>>
buttonVars == <<prev_state, stable_state, counts, pos, screens, buttons, backlight,
                publish_queue, hist, sincePress, presses, lastPress>>
renderVars == <<shutdown, r_pc, seen_version, last_version, idx, image, display_frame,
                raises, iter, mutated>>
persistVars == <<w_pc, w_screen, w_current, w_last, state_file, w_saves, lastPoll,
                 s_changes, b_changes, due>>
lifeVars == <<t_pc, led_cfgs, attempt, last_solid_rgb, led_sink, m_screen, led_last, led_offs,
              late_cmds, full_sleeps, final_saved, final_saves>>
mqttVars == <<n_pc, held, sent, connected, subscribed, published, events, ev>>
lateVars == <<drawn, during, fs, offer>>
extraVars == <<got, led_idle, led_loc, led_obs, pf, fault, boot, lateVars>>
vars == <<busVars, workerVars, obsVars, alertVars, buttonVars, renderVars, persistVars,
          lifeVars, mqttVars, extraVars>>

\* ------------------------------------------------------------------ SharedState

NoOwner == "nobody"

SubIds == {"door", "temp"}

\* SensorReading() of the constructor: every field None, timestamp 0.0
EmptyReading == [co2 |-> None, temperature |-> None, humidity |-> None, timestamp |-> 0]

\* mutant: only the first field is assigned, in place
PartialReading(old, co2, temperature, humidity) ==
    [old EXCEPT !.co2 = Num(co2), !.timestamp = old.timestamp + 1]

\* SensorReading(co2=, temperature=, humidity=, timestamp=time.monotonic()):
\* a new object; the monotonic clock has advanced since the reading it replaces
NewReading(old, co2, temperature, humidity) ==
    [co2 |-> Num(co2), temperature |-> Num(temperature), humidity |-> Num(humidity),
     timestamp |-> old.timestamp + 1]

\* round(value, 2) of a value given in thousandths, result in thousandths.
\* The inputs used here are no ties (value % 10 # 5).
Round2(value) ==
    LET q == value \div 10
        r == value % 10
    IN  IF r >= 5 THEN (q + 1) * 10 ELSE q * 10

\* mutant: the lower limit is not applied
ClampNoFloor(x) == Min(1000, x)

\* mutant: the value is stored under every key
SetKeyAll(m, k, v) == [x \in DOMAIN m |-> v]

\* `self._mqtt[sub_id] = value`
SetKey(m, k, v) == [m EXCEPT ![k] = v]

\* max(0.05, min(1.0, x))
Clamp(x) == Max(50, Min(1000, x))

\* mutant: the index is decremented without wrapping
PrevIndexNoWrap(i, n) == i - 1

\* (self._current_screen - 1) % self._screen_count; Python's % is non-negative
PrevIndex(i, n) == (i - 1) % n

\* (self._current_screen + 1) % self._screen_count
NextIndex(i, n) == (i + 1) % n

\* mutant: the version is not incremented
BumpVersionNot(v) == v

\* self._version += 1, the store of the loaded value plus one
BumpVersion(v) == v + 1

\* mutant: the lock is not taken
CanAcquireAlways(l) == TRUE

\* with self._lock: enters only when no thread owns the lock
CanAcquire(l) == l = NoOwner

Mutators == {"next_screen", "prev_screen", "update_sensor", "set_brightness", "update_mqtt"}
Getters == {"get_version", "get_current_screen", "get_sensor", "get_brightness",
            "get_mqtt", "get_all_mqtt"}

Call(name) ==
    [name |-> name, co2 |-> 0, temperature |-> 0, humidity |-> 0,
     value |-> 0, sub_id |-> "", val |-> None]

NoCall == Call("none")

\* the readings the sensor thread passes to update_sensor
SensorSamples == {<<400, 20, 40>>, <<1500, 25, 60>>}
\* the values passed to set_brightness, in thousandths: -1, 0.333 and 5
BrightnessInputs == {-1000, 333, 5000}
\* the (sub_id, value) pairs the messaging thread passes to update_mqtt
MqttInputs == {<<"door", Str("ON")>>, <<"temp", Num(21)>>}
\* initial_brightness of the constructor, in thousandths: 0.333 and 5
InitialBrightness == {333, 5000}

SensorCalls ==
    {[Call("update_sensor") EXCEPT !.co2 = x[1], !.temperature = x[2], !.humidity = x[3]]
        : x \in SensorSamples}
BrightnessCalls == {[Call("set_brightness") EXCEPT !.value = b] : b \in BrightnessInputs}
MqttCalls == {[Call("update_mqtt") EXCEPT !.sub_id = x[1], !.val = x[2]] : x \in MqttInputs}
GetMqttCalls == {[Call("get_mqtt") EXCEPT !.sub_id = k] : k \in SubIds}

\* The threads of App.run and the bus methods each of them calls.
Workers == {"buttons", "sensor", "mqtt", "render", "led", "persist"}

CallsOf(w) ==
    CASE w = "buttons" ->
            {Call("get_current_screen"), Call("next_screen"), Call("prev_screen"),
             Call("get_brightness")} \cup BrightnessCalls
      [] w = "sensor" -> SensorCalls
      [] w = "mqtt" -> MqttCalls
      [] w = "render" ->
            {Call("get_version"), Call("get_current_screen"), Call("get_sensor"),
             Call("get_brightness")} \cup GetMqttCalls
      [] w = "led" -> {Call("get_sensor"), Call("get_all_mqtt")}
      [] OTHER -> {Call("get_current_screen"), Call("get_brightness")}

\* The I/O each thread performs between its bus calls.
IoOf(w) ==
    CASE w = "buttons" -> {"set_backlight", "publish"}
      [] w = "sensor" -> {"publish"}
      [] w = "mqtt" -> {"client.publish"}
      [] w = "render" -> {"display"}
      [] w = "led" -> {"set_led"}
      [] OTHER -> {"save"}

NoRet == [w |-> "", name |-> "none", val |-> None, ver |-> 0]
NoIo == [w |-> "", kind |-> "none", holder |-> NoOwner]
NoNav == [name |-> "none", from |-> 0, to |-> 0, before |-> "none", start |-> 0]

\* for _ in range(n): next_screen(), on a bus nobody else uses yet
RECURSIVE NextScreenTimes(_, _, _)
NextScreenTimes(i, count, n) ==
    IF n = 0 THEN i ELSE NextScreenTimes(NextIndex(i, count), count, n - 1)

\* max(0, min(initial_screen, len(screens) - 1)) of App.__init__
ClampScreen(saved, count) == Max(0, Min(saved, count - 1))

\* the "screen" values a state file may hold
SavedScreens == -1..MaxScreens

\* SharedState.__init__, then the restore of the saved screen in App.__init__:
\* initial_screen calls of next_screen, each one a mutation
InitBus ==
    /\ lock = NoOwner
    /\ sensor = EmptyReading
    /\ mqtt = [k \in SubIds |-> None]
    /\ screen_count \in 1..MaxScreens
    /\ \E saved \in SavedScreens :
        LET initial_screen == ClampScreen(saved, screen_count) IN
        /\ current_screen = NextScreenTimes(0, screen_count, initial_screen)
        /\ version = initial_screen
    /\ \E b \in InitialBrightness : brightness = Clamp(b)

InitWorkers ==
    /\ pc = [w \in Workers |-> "idle"]
    /\ op = [w \in Workers |-> NoCall]
    /\ tmp = [w \in Workers |-> 0]
    /\ ret = [w \in Workers |-> None]

InitObs ==
    /\ started = 0
    /\ completed = version
    /\ writes = {}
    /\ lastRet = NoRet
    /\ lastIo = NoIo
    /\ lastNav = NoNav

Triple(c) == <<c.co2, c.temperature, c.humidity>>

\* `with self._lock:` of a bus method: the calling thread takes the lock
Acquire(w) ==
    /\ pc[w] = "idle"
    /\ CanAcquire(lock)
    /\ \E c \in CallsOf(w) :
        /\ c.name \in Mutators => started < MaxMutations
        /\ op' = [op EXCEPT ![w] = c]
        /\ started' = IF c.name \in Mutators THEN started + 1 ELSE started
        /\ writes' = IF c.name = "update_sensor" THEN writes \cup {Triple(c)} ELSE writes
    /\ lock' = w
    /\ pc' = [pc EXCEPT ![w] = "body"]
    /\ lastRet' = NoRet
    /\ lastIo' = NoIo
    /\ UNCHANGED <<sensor, mqtt, current_screen, screen_count, brightness, version>>
    /\ UNCHANGED <<tmp, ret, completed, lastNav>>

\* the data statement of a mutator, before its `self._version += 1`
MutatorBody(w) ==
    /\ pc[w] = "body"
    /\ op[w].name \in Mutators
    /\ LET c == op[w] IN
        /\ current_screen' =
            CASE c.name = "next_screen" -> NextIndex(current_screen, screen_count)
              [] c.name = "prev_screen" -> PrevIndex(current_screen, screen_count)
              [] OTHER -> current_screen
        /\ sensor' =
            IF c.name = "update_sensor"
            THEN NewReading(sensor, c.co2, c.temperature, c.humidity)
            ELSE sensor
        /\ brightness' =
            IF c.name = "set_brightness" THEN Clamp(Round2(c.value)) ELSE brightness
        /\ mqtt' =
            IF c.name = "update_mqtt" THEN SetKey(mqtt, c.sub_id, c.val) ELSE mqtt
        /\ lastNav' =
            IF c.name \in {"next_screen", "prev_screen"}
            THEN [name |-> c.name, from |-> current_screen, to |-> current_screen',
                  before |-> lastNav.name, start |-> lastNav.from]
            ELSE lastNav
    /\ pc' = [pc EXCEPT ![w] = "load"]
    /\ lastRet' = NoRet
    /\ lastIo' = NoIo
    /\ UNCHANGED <<lock, screen_count, version, op, tmp, ret, started, completed, writes>>

\* `self._version += 1`: the load of the attribute
LoadVersion(w) ==
    /\ pc[w] = "load"
    /\ tmp' = [tmp EXCEPT ![w] = version]
    /\ pc' = [pc EXCEPT ![w] = "store"]
    /\ lastRet' = NoRet
    /\ lastIo' = NoIo
    /\ UNCHANGED <<busVars, op, ret, started, completed, writes, lastNav>>

\* `self._version += 1`: the store of the sum
StoreVersion(w) ==
    /\ pc[w] = "store"
    /\ version' = BumpVersion(tmp[w])
    /\ pc' = [pc EXCEPT ![w] = "exit"]
    /\ lastRet' = NoRet
    /\ lastIo' = NoIo
    /\ UNCHANGED <<lock, sensor, mqtt, current_screen, screen_count, brightness>>
    /\ UNCHANGED <<op, tmp, ret, started, completed, writes, lastNav>>

\* the `return` expression of a getter, evaluated with the lock held.
\* get_sensor returns the SensorReading object itself; update_sensor never
\* changes an object, it replaces it, so the object is the value read here.
GetterBody(w) ==
    /\ pc[w] = "body"
    /\ op[w].name \in Getters
    /\ LET c == op[w] IN
        ret' = [ret EXCEPT ![w] =
            CASE c.name = "get_version" -> [t |-> "int", v |-> version]
              [] c.name = "get_current_screen" -> [t |-> "int", v |-> current_screen]
              [] c.name = "get_brightness" -> [t |-> "int", v |-> brightness]
              [] c.name = "get_sensor" -> [t |-> "reading", v |-> sensor]
              [] c.name = "get_mqtt" -> [t |-> "value", v |-> mqtt[c.sub_id]]
              [] OTHER -> [t |-> "dict", v |-> mqtt]]
    /\ pc' = [pc EXCEPT ![w] = "exit"]
    /\ lastRet' = NoRet
    /\ lastIo' = NoIo
    /\ UNCHANGED <<busVars, op, tmp, started, completed, writes, lastNav>>

\* mutant: the method returns with the lock still held
OwnerAfterReleaseKept(l) == l

\* the end of the `with self._lock:` block
OwnerAfterRelease(l) == NoOwner

\* leaving the `with` block: the lock is released and the method returns
Release(w) ==
    /\ pc[w] = "exit"
    /\ lock' = OwnerAfterRelease(lock)
    /\ pc' = [pc EXCEPT ![w] = "idle"]
    /\ completed' = IF op[w].name \in Mutators THEN completed + 1 ELSE completed
    /\ lastRet' = [w |-> w, name |-> op[w].name,
                   val |-> IF op[w].name \in Getters THEN ret[w] ELSE None,
                   ver |-> version]
    /\ op' = [op EXCEPT ![w] = NoCall]
    /\ ret' = [ret EXCEPT ![w] = None]
    /\ tmp' = [tmp EXCEPT ![w] = 0]
    /\ lastIo' = NoIo
    /\ UNCHANGED <<sensor, mqtt, current_screen, screen_count, brightness, version>>
    /\ UNCHANGED <<started, writes, lastNav>>

\* a thread, between two bus calls, drives its sink
Io(w) ==
    /\ pc[w] = "idle"
    /\ \E kind \in IoOf(w) : lastIo' = [w |-> w, kind |-> kind, holder |-> lock]
    /\ lastRet' = NoRet
    /\ UNCHANGED <<busVars, workerVars, started, completed, writes, lastNav>>

BusStep ==
    \E w \in Workers :
        \/ Acquire(w)
        \/ MutatorBody(w)
        \/ LoadVersion(w)
        \/ StoreVersion(w)
        \/ GetterBody(w)
        \/ Release(w)
        \/ Io(w)


\* ------------------------------------------------------------------ AlertEvaluator

\* source.partition("."): the namespace and the field of a rule's source
Source(ns, field) == [ns |-> ns, field |-> field]

\* AlertConfig: source, op, threshold, priority (the condition is parsed into
\* op and threshold by config._parse_condition)
Rule(source, op_str, threshold, priority) ==
    [source |-> source, op |-> op_str, threshold |-> threshold, priority |-> priority]

\* _OPS
Ops == {">=", "<=", "!=", ">", "<", "=="}

\* the order of Python's str comparison on the strings used here
StrRank(x) == CASE x = "OFF" -> 1 [] x = "ON" -> 2 [] OTHER -> 0

\* fn(value, threshold) of two values of one type
SameTypeCompare(op_str, a, b) ==
    CASE op_str = ">=" -> a >= b
      [] op_str = "<=" -> a <= b
      [] op_str = "!=" -> a # b
      [] op_str = ">" -> a > b
      [] op_str = "<" -> a < b
      [] OTHER -> a = b

\* fn(value, threshold) for fn in _OPS: "T", "F", or "TypeError" where Python
\* raises (an ordering of a str and a float, or of None and anything);
\* == and != of values of different types are False and True
Compare(op_str, value, threshold) ==
    IF value.t = threshold.t /\ value.t = "num"
    THEN IF SameTypeCompare(op_str, value.n, threshold.n) THEN "T" ELSE "F"
    ELSE IF value.t = threshold.t /\ value.t = "str"
    THEN IF SameTypeCompare(op_str, StrRank(value.s), StrRank(threshold.s)) THEN "T" ELSE "F"
    ELSE CASE op_str = "==" -> "F"
           [] op_str = "!=" -> "T"
           [] OTHER -> "TypeError"

\* except TypeError: return False
TypeErrorCaught == [match |-> FALSE, raised |-> FALSE]

\* AlertEvaluator._eval
Eval(value, op_str, threshold) ==
    IF op_str \notin Ops
    THEN [match |-> FALSE, raised |-> FALSE]
    ELSE LET r == Compare(op_str, value, threshold) IN
         IF r = "TypeError" THEN TypeErrorCaught
         ELSE [match |-> r = "T", raised |-> FALSE]

SensorFields == {"co2", "temperature", "humidity", "timestamp"}

\* getattr(sensor, field, None)
GetAttr(reading, field) ==
    CASE field = "co2" -> reading.co2
      [] field = "temperature" -> reading.temperature
      [] field = "humidity" -> reading.humidity
      [] field = "timestamp" -> Num(reading.timestamp)
      [] OTHER -> None

\* AlertEvaluator._resolve; mqtt_vals.get(field) is None for a key never received
Resolve(source, reading, mqtt_vals) ==
    CASE source.ns = "sensor" -> GetAttr(reading, source.field)
      [] source.ns = "mqtt" ->
            IF source.field \in DOMAIN mqtt_vals THEN mqtt_vals[source.field] ELSE None
      [] OTHER -> None

\* mutant: the rule is evaluated whether or not its source has a value
HasValueAlways(value) == TRUE

\* `value is not None`
HasValue(value) == value.t # "none"

RECURSIVE InsertTiesFirst(_, _, _)
InsertTiesFirst(s, i, rules) ==
    IF s = <<>> THEN <<i>>
    ELSE IF rules[Head(s)].priority > rules[i].priority
         THEN <<Head(s)>> \o InsertTiesFirst(Tail(s), i, rules)
         ELSE <<i>> \o s

RECURSIVE SortPrefixTiesFirst(_, _)
SortPrefixTiesFirst(rules, k) ==
    IF k = 0 THEN <<>> ELSE InsertTiesFirst(SortPrefixTiesFirst(rules, k - 1), k, rules)

\* mutant: a descending sort that puts the later of two equal priorities first
SortedTiesReversed(rules) == SortPrefixTiesFirst(rules, Len(rules))

\* position i goes behind every position of a priority >= its own
RECURSIVE InsertByPriority(_, _, _)
InsertByPriority(s, i, rules) ==
    IF s = <<>> THEN <<i>>
    ELSE IF rules[Head(s)].priority >= rules[i].priority
         THEN <<Head(s)>> \o InsertByPriority(Tail(s), i, rules)
         ELSE <<i>> \o s

RECURSIVE SortPrefix(_, _)
SortPrefix(rules, k) ==
    IF k = 0 THEN <<>> ELSE InsertByPriority(SortPrefix(rules, k - 1), k, rules)

\* sorted(alerts, key=lambda a: a.priority, reverse=True): stable, so rules of
\* equal priority keep their declared order.  The result lists declared positions.
SortedByPriority(rules) == SortPrefix(rules, Len(rules))

NoOut == [done |-> FALSE, idx |-> 0, raised |-> FALSE, scanned |-> <<>>]

\* the loop of active_alert over _alerts from position k on; idx is the declared
\* position of the rule returned, 0 for None
RECURSIVE Scan(_, _, _, _, _, _)
Scan(sorted, k, rules, reading, mqtt_vals, scanned) ==
    IF k > Len(sorted)
    THEN [done |-> TRUE, idx |-> 0, raised |-> FALSE, scanned |-> scanned]
    ELSE LET alert == rules[sorted[k]]
             value == Resolve(alert.source, reading, mqtt_vals)
             e == IF HasValue(value) THEN Eval(value, alert.op, alert.threshold)
                  ELSE [match |-> FALSE, raised |-> FALSE]
             entry == [i |-> sorted[k], value |-> value, match |-> e.match,
                       raised |-> e.raised]
         IN  IF e.raised
             THEN [done |-> TRUE, idx |-> 0, raised |-> TRUE,
                   scanned |-> Append(scanned, entry)]
             ELSE IF e.match
             THEN [done |-> TRUE, idx |-> sorted[k], raised |-> FALSE,
                   scanned |-> Append(scanned, entry)]
             ELSE Scan(sorted, k + 1, rules, reading, mqtt_vals, Append(scanned, entry))

\* AlertEvaluator.active_alert on the snapshot get_sensor(), get_all_mqtt()
ActiveAlert(sorted, rules, reading, mqtt_vals) ==
    Scan(sorted, 1, rules, reading, mqtt_vals, <<>>)

\* the rule sources, comparators and thresholds of a single-rule configuration
SingleSources ==
    {Source("sensor", "co2"), Source("sensor", "pressure"), Source("mqtt", "door"),
     Source("mqtt", "window"), Source("gpio", "pin"), Source("sensor", "")}
Thresholds == {Num(1000), Str("ON")}
SinglePool ==
    {Rule(src, o, th, 5) : src \in SingleSources, o \in Ops, th \in Thresholds}

\* the rules of the longer rule lists
ListSources == {Source("sensor", "co2"), Source("mqtt", "door"), Source("gpio", "pin")}
ListOps == {">=", "!="}
Priorities == {5, 10}
ListPool ==
    {Rule(src, o, th, p) : src \in ListSources, o \in ListOps, th \in Thresholds,
                           p \in Priorities}

RuleLists == UNION {[1..k -> ListPool] : k \in 0..MaxRules}

\* the bus contents the rules are evaluated on
AlertReadings == {EmptyReading, NewReading(EmptyReading, 1500, 25, 60)}
DoorValues == {None, Str("ON"), Str("OFF"), Num(42)}

InitAlertIdle ==
    /\ alerts = <<>>
    /\ order = <<>>
    /\ alertOut = NoOut

\* AlertEvaluator.__init__ on a rule list, with a bus that holds some content
InitAlert ==
    /\ \/ alerts \in RuleLists
       \/ \E r \in SinglePool : alerts = <<r>>
    /\ order = SortedByPriority(alerts)
    /\ alertOut = NoOut
    /\ sensor \in AlertReadings
    /\ \E d \in DoorValues : mqtt = [k \in SubIds |-> IF k = "door" THEN d ELSE None]
    /\ lock = NoOwner
    /\ current_screen = 0
    /\ screen_count = 1
    /\ brightness = 1000
    /\ version = 0

\* one call of active_alert()
EvaluateAlert ==
    /\ ~alertOut.done
    /\ alertOut' = ActiveAlert(order, alerts, sensor, mqtt)
    /\ UNCHANGED <<alerts, order, busVars, workerVars, obsVars, buttonVars>>

NextAlert == EvaluateAlert


\* ------------------------------------------------------------------ ButtonHandler

\* _DEBOUNCE_COUNT
DEBOUNCE_COUNT == 2

\* the buttons of _BUTTON_PINS the model polls, in poll order: one that no
\* screen handles and one that the brightness screen handles
ButtonNames == <<"A", "X">>

Polled == {ButtonNames[k] : k \in 1..Len(ButtonNames)}

\* ButtonConfig: action, topic, payload; NoConfig where buttons.get(name) is None
ButtonConfig(action) == [action |-> action, topic |-> "cmd/" \o action, payload |-> "1"]
NoConfig == [action |-> "", topic |-> "", payload |-> ""]

\* round(x, 1) of thousandths.  Python rounds the float: of the ties x.x5 + 0.1
\* the one reached from the brightness values used here, 0.05 + 0.1, rounds up.
Round1(value) == ((value + 50) \div 100) * 100

\* _STEP of brightness_screen.py, in thousandths
STEP == 100

\* the bus and the sinks as a press sees and leaves them
PressState ==
    [current_screen |-> current_screen, brightness |-> brightness, version |-> version,
     backlight |-> backlight, publish_queue |-> publish_queue, calls |-> <<>>]

\* SharedState.set_brightness, called by the only thread that is running
SetBrightness(st, value) ==
    [st EXCEPT !.brightness = Clamp(Round2(value)),
               !.version = BumpVersion(st.version),
               !.calls = Append(st.calls, "set_brightness")]

\* display.set_backlight(value)
SetBacklight(st, value) ==
    [st EXCEPT !.backlight = value, !.calls = Append(st.calls, "set_backlight")]

\* mutant: the brightness screen handles X only
HandleButtonXOnly(type, name, st) ==
    IF type = "brightness" /\ name = "X"
    THEN LET new == Max(50, Round2(st.brightness - STEP)) IN
         [consumed |-> TRUE, st |-> SetBacklight(SetBrightness(st, new), new)]
    ELSE [consumed |-> FALSE, st |-> st]

\* BrightnessScreen.handle_button and the default Screen.handle_button
HandleButton(type, name, st) ==
    IF type = "brightness" /\ name = "X"
    THEN LET new == Max(50, Round2(st.brightness - STEP)) IN
         [consumed |-> TRUE, st |-> SetBacklight(SetBrightness(st, new), new)]
    ELSE IF type = "brightness" /\ name = "Y"
    THEN LET new == Min(1000, Round1(st.brightness + STEP)) IN
         [consumed |-> TRUE, st |-> SetBacklight(SetBrightness(st, new), new)]
    ELSE [consumed |-> FALSE, st |-> st]

\* mutant: whatever the action names, the next screen is shown
DispatchAlwaysNext(cfg, st) ==
    [st EXCEPT !.current_screen = NextIndex(st.current_screen, screen_count),
               !.version = BumpVersion(st.version),
               !.calls = Append(st.calls, "next_screen")]

\* ButtonHandler._dispatch
Dispatch(cfg, st) ==
    CASE cfg.action = "next_screen" ->
            [st EXCEPT !.current_screen = NextIndex(st.current_screen, screen_count),
                       !.version = BumpVersion(st.version),
                       !.calls = Append(st.calls, "next_screen")]
      [] cfg.action = "prev_screen" ->
            [st EXCEPT !.current_screen = PrevIndex(st.current_screen, screen_count),
                       !.version = BumpVersion(st.version),
                       !.calls = Append(st.calls, "prev_screen")]
      [] cfg.action = "mqtt_publish" ->
            [st EXCEPT !.publish_queue = Append(st.publish_queue, <<cfg.topic, cfg.payload>>),
                       !.calls = Append(st.calls, "publish")]
      [] OTHER -> st

\* mutant: the screen's answer is ignored
FallsThroughAlways(consumed) == TRUE

\* `if screen.handle_button(...): return`
FallsThrough(consumed) == ~consumed

\* ButtonHandler._on_press
OnPress(name, st) ==
    LET offered == st.current_screen
        h == HandleButton(screens[offered + 1], name,
                          [st EXCEPT !.calls = Append(st.calls, "handle_button")])
        cfg == buttons[name]
        after == IF FallsThrough(h.consumed) /\ cfg # NoConfig
                 THEN Dispatch(cfg, h.st)
                 ELSE h.st
    IN  [offered |-> offered, consumed |-> h.consumed, st |-> after]

\* mutant: a press is dispatched whenever the debounced reading is true
ShouldPressWhenTrue(pressed, stable) == pressed

\* `if pressed and not stable_state[name]`
ShouldPress(pressed, stable) == pressed /\ ~stable

\* mutant: the counter restarts at 0 on a reading that differs
NextCountFromZero(same, count) == IF same THEN count + 1 ELSE 0

\* `counts[name] += 1` on a reading equal to the previous one, else `counts[name] = 1`
NextCount(same, count) == IF same THEN count + 1 ELSE 1

NoPress == [name |-> "none", offered |-> 0, consumed |-> FALSE, calls |-> <<>>,
            since |-> "never"]

\* mutant: every reading counts as debounced
DebouncedAtOnce(count) == count >= 1

\* `if counts[name] == _DEBOUNCE_COUNT:`
Debounced(count) == count = DEBOUNCE_COUNT

\* the body of `for name, pin in _BUTTON_PINS.items()` for the button at pos,
\* with the raw reading `pressed`; after the last button the loop waits one
\* poll interval and starts over
PollButton(pressed) ==
    LET name == ButtonNames[pos]
        same == pressed = prev_state[name]
        count == NextCount(same, counts[name])
        debounced == Debounced(count)
        fires == debounced /\ ShouldPress(pressed, stable_state[name])
        p == OnPress(name, PressState)
    IN  /\ same => counts[name] < MaxCount
        /\ fires => presses < MaxPresses
        /\ counts' = [counts EXCEPT ![name] = count]
        /\ prev_state' = [prev_state EXCEPT ![name] = pressed]
        /\ stable_state' = [stable_state EXCEPT ![name] =
                                IF debounced THEN pressed ELSE stable_state[name]]
        /\ pos' = IF pos = Len(ButtonNames) THEN 1 ELSE pos + 1
        /\ hist' = [hist EXCEPT ![name] =
                        IF Len(hist[name]) < 2 THEN Append(hist[name], pressed)
                        ELSE <<hist[name][2], pressed>>]
        /\ IF fires
           THEN /\ current_screen' = p.st.current_screen
                /\ brightness' = p.st.brightness
                /\ version' = p.st.version
                /\ backlight' = p.st.backlight
                /\ publish_queue' = p.st.publish_queue
                /\ presses' = presses + 1
                /\ lastPress' = [name |-> name, offered |-> p.offered,
                                 consumed |-> p.consumed, calls |-> p.st.calls,
                                 since |-> sincePress[name]]
                /\ sincePress' = [sincePress EXCEPT ![name] = "held"]
           ELSE /\ UNCHANGED <<current_screen, brightness, version, backlight,
                               publish_queue, presses>>
                /\ lastPress' = NoPress
                /\ sincePress' = [sincePress EXCEPT ![name] =
                        IF /\ sincePress[name] = "held"
                           /\ ~pressed
                           /\ hist[name] # <<>>
                           /\ ~hist[name][Len(hist[name])]
                        THEN "released" ELSE sincePress[name]]
        /\ UNCHANGED <<lock, sensor, mqtt, screen_count, screens, buttons>>
        /\ UNCHANGED <<workerVars, obsVars, alertVars>>

\* the screen lists of _build_screens: a sensor, a brightness and an mqtt screen
ScreenLists ==
    {<<"sensor">>, <<"brightness">>, <<"sensor", "brightness">>,
     <<"brightness", "mqtt", "sensor">>}

\* the actions a `buttons:` entry may name; "reboot" is no action of _dispatch
Actions == {"next_screen", "prev_screen", "mqtt_publish", "reboot"}
ButtonTables ==
    [Polled -> {NoConfig} \cup {ButtonConfig(a) : a \in Actions}]

InitButtonsIdle ==
    /\ prev_state = [b \in Polled |-> FALSE]
    /\ stable_state = [b \in Polled |-> FALSE]
    /\ counts = [b \in Polled |-> 0]
    /\ pos = 1
    /\ screens = <<"sensor">>
    /\ buttons = [b \in Polled |-> NoConfig]
    /\ backlight = brightness
    /\ publish_queue = <<>>
    /\ hist = [b \in Polled |-> <<>>]
    /\ sincePress = [b \in Polled |-> "never"]
    /\ presses = 0
    /\ lastPress = NoPress

\* App.__init__ with a screen list and a button table, then the first lines of
\* ButtonHandler._run
InitButtons ==
    /\ screens \in ScreenLists
    /\ buttons \in ButtonTables
    /\ screen_count = Len(screens)
    /\ lock = NoOwner
    /\ sensor = EmptyReading
    /\ mqtt = [k \in SubIds |-> None]
    /\ \E saved \in SavedScreens :
        LET initial_screen == ClampScreen(saved, screen_count) IN
        /\ current_screen = NextScreenTimes(0, screen_count, initial_screen)
        /\ version = initial_screen
    /\ \E b \in InitialBrightness :
        /\ brightness = Clamp(b)
        /\ backlight = b
    /\ prev_state = [b \in Polled |-> FALSE]
    /\ stable_state = [b \in Polled |-> FALSE]
    /\ counts = [b \in Polled |-> 0]
    /\ pos = 1
    /\ publish_queue = <<>>
    /\ hist = [b \in Polled |-> <<>>]
    /\ sincePress = [b \in Polled |-> "never"]
    /\ presses = 0
    /\ lastPress = NoPress

NextButtons == \E pressed \in BOOLEAN : PollButton(pressed)

\* ------------------------------------------------------------------ DisplayController

NoFrame == [screen |-> -1, state |-> -1]

\* screen.render(state): the raster of screen i drawn from the bus content the
\* version v stands for
Render(i, v) == [screen |-> i, state |-> v]

NoIter ==
    [n |-> 0, changed |-> FALSE, afterRaise |-> FALSE, rendered |-> FALSE,
     pushed |-> FALSE, raised |-> FALSE, screen |-> -1]

\* the record of a loop iteration that begins: n counts iterations up to 2
BeginIter(it, mut) ==
    [n |-> Min(it.n + 1, 2), changed |-> mut, afterRaise |-> it.raised,
     rendered |-> FALSE, pushed |-> FALSE, raised |-> FALSE, screen |-> -1]

InitRenderIdle ==
    /\ shutdown = FALSE
    /\ r_pc = "off"
    /\ seen_version = -1
    /\ last_version = -1
    /\ idx = 0
    /\ image = NoFrame
    /\ display_frame = NoFrame
    /\ raises = 0
    /\ iter = NoIter
    /\ mutated = FALSE

\* the first lines of DisplayController._run
InitRender ==
    /\ shutdown = FALSE
    /\ r_pc = "test"
    /\ seen_version = -1
    /\ last_version = -1
    /\ idx = 0
    /\ image = NoFrame
    /\ display_frame = NoFrame
    /\ raises = 0
    /\ iter = NoIter
    /\ mutated = FALSE

\* `while not self._shutdown.is_set():`
RenderTest ==
    /\ r_pc = "test"
    /\ r_pc' = IF shutdown THEN "done" ELSE "get_version"
    /\ UNCHANGED <<shutdown, seen_version, last_version, idx, image, display_frame,
                   raises, iter, mutated>>

\* `version = self._state.get_version()` and `if version != last_version:`
NeedsRenderOnce(v, last) == last = -1

NeedsRender(v, last) == v # last

RenderGetVersion ==
    /\ r_pc = "get_version"
    /\ seen_version' = version
    /\ r_pc' = IF NeedsRender(version, last_version) THEN "get_screen" ELSE "wait"
    /\ iter' = BeginIter(iter, mutated)
    /\ mutated' = FALSE
    /\ UNCHANGED <<shutdown, last_version, idx, image, display_frame, raises>>

\* `idx = self._state.get_current_screen()`
RenderGetScreen ==
    /\ r_pc = "get_screen"
    /\ idx' = current_screen
    /\ r_pc' = "render"
    /\ UNCHANGED <<shutdown, seen_version, last_version, image, display_frame,
                   raises, iter, mutated>>

\* `image = screen.render(self._state)`, which returns or raises
RenderScreen(raise) ==
    /\ r_pc = "render"
    /\ raise => raises < MaxRaises
    /\ iter' = [iter EXCEPT !.rendered = TRUE, !.raised = raise, !.screen = idx]
    /\ IF raise
       THEN /\ r_pc' = "wait"
            /\ raises' = raises + 1
            /\ UNCHANGED image
       ELSE /\ r_pc' = "display"
            /\ image' = Render(idx, version)
            /\ UNCHANGED raises
    /\ UNCHANGED <<shutdown, seen_version, last_version, idx, display_frame, mutated>>

\* mutant: the version is read again when it is recorded
RecordedLate(seen, current) == current

\* the `version` of `last_version = version`: the local read at the top of the
\* iteration, whatever the bus version has become since
Recorded(seen, current) == seen

\* last_version after the try block
LastVersionAlways(raised, v, last) == v

LastVersionAfter(raised, v, last) == IF raised THEN last ELSE v

\* `self._display.display(image)`, which returns or raises, and
\* `last_version = version`
RenderDisplay(raise) ==
    /\ r_pc = "display"
    /\ raise => raises < MaxRaises
    /\ iter' = [iter EXCEPT !.raised = raise, !.pushed = ~raise]
    /\ display_frame' = IF raise THEN display_frame ELSE image
    /\ last_version' = LastVersionAfter(raise, Recorded(seen_version, version), last_version)
    /\ raises' = IF raise THEN raises + 1 ELSE raises
    /\ r_pc' = "wait"
    /\ UNCHANGED <<shutdown, seen_version, idx, image, mutated>>

\* `self._shutdown.wait(timeout=sleep_time)` returns
RenderWait ==
    /\ r_pc = "wait"
    /\ r_pc' = "test"
    /\ UNCHANGED <<shutdown, seen_version, last_version, idx, image, display_frame,
                   raises, iter, mutated>>

RenderStep ==
    \/ RenderTest
    \/ RenderGetVersion
    \/ RenderGetScreen
    \/ \E raise \in BOOLEAN : RenderScreen(raise)
    \/ \E raise \in BOOLEAN : RenderDisplay(raise)
    \/ RenderWait

\* a completed mutator call of another thread
BusMutation ==
    /\ started < MaxMutations
    /\ \E name \in {"next_screen", "prev_screen", "update_sensor"} :
        current_screen' =
            CASE name = "next_screen" -> NextIndex(current_screen, screen_count)
              [] name = "prev_screen" -> PrevIndex(current_screen, screen_count)
              [] OTHER -> current_screen
    /\ version' = BumpVersion(version)
    /\ started' = started + 1
    /\ completed' = completed + 1
    /\ UNCHANGED <<lock, sensor, mqtt, screen_count, brightness>>
    /\ UNCHANGED <<writes, lastRet, lastIo, lastNav>>

\* App._handle_signal
HandleSignal ==
    /\ ~shutdown
    /\ shutdown' = TRUE

NextRender ==
    \/ /\ RenderStep
       /\ UNCHANGED <<busVars, obsVars>>
    \/ /\ BusMutation
       /\ mutated' = TRUE
       /\ UNCHANGED <<shutdown, r_pc, seen_version, last_version, idx, image,
                      display_frame, raises, iter>>
    \/ /\ HandleSignal
       /\ UNCHANGED <<r_pc, seen_version, last_version, idx, image, display_frame,
                      raises, iter, mutated>>
       /\ UNCHANGED <<busVars, obsVars>>

\* the bus version at which the render loop read the screen index: kept for
\* the image and, once the image is pushed, for the frame on the display
DrawnAfter ==
    IF r_pc = "get_screen" /\ r_pc' = "render"
    THEN [drawn EXCEPT !.idx_at = version]
    ELSE IF r_pc = "display" /\ iter'.pushed
    THEN [drawn EXCEPT !.pushed_at = drawn.idx_at]
    ELSE drawn

\* the render loop and the mutators, with the observation of the frames
NextFrame == NextRender /\ drawn' = DrawnAfter

\* ------------------------------------------------------------------ App._persist_watcher

\* a (screen, brightness) tuple; NoTuple where there is none yet
NoTuple == <<-1, -1>>

InitPersistIdle ==
    /\ w_pc = "off"
    /\ w_screen = -1
    /\ w_current = NoTuple
    /\ w_last = NoTuple
    /\ state_file = NoTuple
    /\ w_saves = 0
    /\ lastPoll = "none"
    /\ s_changes = 0
    /\ b_changes = 0
    /\ due = 0

\* the watcher thread is started by App.run
InitPersist ==
    /\ w_pc = "init_screen"
    /\ w_screen = -1
    /\ w_current = NoTuple
    /\ w_last = NoTuple
    /\ state_file = NoTuple
    /\ w_saves = 0
    /\ lastPoll = "none"
    /\ s_changes = 0
    /\ b_changes = 0
    /\ due = 0

\* `self._state.get_current_screen()`, the first element of a tuple
WatcherReadScreen ==
    /\ w_pc \in {"init_screen", "read_screen"}
    /\ w_screen' = current_screen
    /\ due' = IF w_pc = "read_screen" THEN s_changes ELSE due
    /\ w_pc' = IF w_pc = "init_screen" THEN "init_brightness" ELSE "read_brightness"
    /\ UNCHANGED <<w_current, w_last, state_file, w_saves, lastPoll, s_changes, b_changes>>

\* `self._state.get_brightness()`, the second element: `last = ...` before the
\* loop, `current = ...` inside it
WatcherReadBrightness ==
    /\ w_pc \in {"init_brightness", "read_brightness"}
    /\ IF w_pc = "init_brightness"
       THEN /\ w_last' = <<w_screen, brightness>>
            /\ w_pc' = "test"
            /\ UNCHANGED <<w_current, due>>
       ELSE /\ w_current' = <<w_screen, brightness>>
            /\ w_pc' = "compare"
            /\ due' = due + b_changes
            /\ UNCHANGED w_last
    /\ UNCHANGED <<w_screen, state_file, w_saves, lastPoll, s_changes, b_changes>>

\* `while not self._shutdown.is_set():`
WatcherTest ==
    /\ w_pc = "test"
    /\ w_pc' = IF shutdown THEN "done" ELSE "wait"
    /\ UNCHANGED <<w_screen, w_current, w_last, state_file, w_saves, lastPoll,
                   s_changes, b_changes, due>>

\* `self._shutdown.wait(timeout=1.0)` returns
WatcherWait ==
    /\ w_pc = "wait"
    /\ w_pc' = "read_screen"
    /\ UNCHANGED <<w_screen, w_current, w_last, state_file, w_saves, lastPoll,
                   s_changes, b_changes, due>>

\* `if current != last:`
ShouldSaveAlways(current, last) == TRUE

ShouldSave(current, last) == current # last

\* `persistence.save(self._state_file, current[0], current[1])` and
\* `last = current`, or nothing
WatcherCompare ==
    /\ w_pc = "compare"
    /\ IF ShouldSave(w_current, w_last)
       THEN /\ state_file' = w_current
            /\ w_saves' = w_saves + 1
            /\ w_last' = w_current
            /\ lastPoll' = "saved"
       ELSE /\ lastPoll' = "skipped"
            /\ UNCHANGED <<state_file, w_saves, w_last>>
    /\ w_pc' = "test"
    /\ UNCHANGED <<w_screen, w_current, s_changes, b_changes, due>>

WatcherStep ==
    \/ WatcherReadScreen
    \/ WatcherReadBrightness
    \/ WatcherTest
    \/ WatcherWait
    \/ WatcherCompare

\* the calls of the button thread that can change the tuple
TupleCalls ==
    {Call("next_screen"), Call("prev_screen")} \cup BrightnessCalls

ScreenAfter(c, i, n) ==
    CASE c.name = "next_screen" -> NextIndex(i, n)
      [] c.name = "prev_screen" -> PrevIndex(i, n)
      [] OTHER -> i

BrightnessAfter(c, b) == IF c.name = "set_brightness" THEN Clamp(Round2(c.value)) ELSE b

\* a completed call of the button thread; a change of the screen counts once the
\* watcher has read the screen of its first tuple, a change of the brightness
\* once it has read the brightness of its first tuple
TupleMutation ==
    /\ started < MaxMutations
    /\ \E c \in TupleCalls :
        /\ current_screen' = ScreenAfter(c, current_screen, screen_count)
        /\ brightness' = BrightnessAfter(c, brightness)
    /\ version' = BumpVersion(version)
    /\ started' = started + 1
    /\ completed' = completed + 1
    /\ s_changes' =
        IF current_screen' # current_screen /\ w_pc # "init_screen"
        THEN s_changes + 1 ELSE s_changes
    /\ b_changes' =
        IF brightness' # brightness /\ w_pc \notin {"init_screen", "init_brightness"}
        THEN b_changes + 1 ELSE b_changes
    /\ UNCHANGED <<lock, sensor, mqtt, screen_count>>
    /\ UNCHANGED <<writes, lastRet, lastIo, lastNav>>

NextPersist ==
    \/ /\ WatcherStep
       /\ UNCHANGED <<busVars, obsVars, shutdown>>
    \/ /\ TupleMutation
       /\ UNCHANGED <<w_pc, w_screen, w_current, w_last, state_file, w_saves, lastPoll, due>>
       /\ UNCHANGED shutdown
    \/ /\ HandleSignal
       /\ UNCHANGED <<busVars, obsVars, persistVars>>

\* ------------------------------------------------------------------ App.run and the worker threads

(***************************************************************************)
(* A worker reads the shutdown event in its timed wait and in the test of  *)
(* its `while` loop, and nowhere else.  A step of a worker runs from the   *)
(* return of a wait (or from the start of the thread) through the test of  *)
(* the loop; a worker at "wait" is inside its timed wait.  The press of a   *)
(* button, the frame of the render loop and the save of the watcher are    *)
(* steps of their own, taken at "body": the shutdown event can be set, and *)
(* the main thread can run, between the test and the body.  The animator   *)
(* and the sensor thread take their body with the test; the animator's     *)
(* command after its loop is a step of its own.                            *)
(***************************************************************************)

\* the threads of App.run: the five workers and the main thread
LifeThreads == {"buttons", "render", "led", "sensor", "persist", "main"}

Off == <<0, 0, 0>>
NoRgb == <<-1, -1, -1>>

\* cfg.color and cfg.mode of the active alert or of the idle configuration
LedConfigs ==
    {[mode |-> "solid", color |-> <<0, 1000, 0>>],
     [mode |-> "blink", color |-> <<1000, 0, 0>>],
     [mode |-> "pulse", color |-> <<1000, 0, 0>>]}

\* the factor a colour is multiplied by, in thousandths: `on` of a blink is 0 or
\* 1, the brightness of a pulse lies between 0 and 1
Factors(mode) == IF mode = "blink" THEN {0, 1000} ELSE {500, 1000}

Scale(color, f) == <<(color[1] * f) \div 1000, (color[2] * f) \div 1000,
                     (color[3] * f) \div 1000>>

\* the return value of `self._shutdown.wait(timeout=...)`: true when the event is set
WaitResultTimeout(set) == FALSE

WaitResult(set) == set

\* the main thread has called set_led(0, 0, 0), set_backlight(0.0)
LedForcedOff == t_pc["main"] \in {"backlight_off", "save_screen", "save", "returned"}
BacklightForcedOff == t_pc["main"] \in {"save_screen", "save", "returned"}

InitLifeIdle ==
    /\ t_pc = [t \in LifeThreads |-> "off"]
    /\ led_cfgs = {}
    /\ attempt = 0
    /\ last_solid_rgb = NoRgb
    /\ led_sink = NoRgb
    /\ led_last = "none"
    /\ led_offs = 0
    /\ late_cmds = 0
    /\ full_sleeps = 0
    /\ m_screen = -1
    /\ final_saved = NoTuple
    /\ final_saves = 0

\* App.run up to `self._shutdown.wait()`: every thread has been started
InitLife ==
    /\ t_pc = [t \in LifeThreads |->
                CASE t = "main" -> "wait_signal"
                  [] t = "sensor" -> "import"
                  [] t = "persist" -> "init"
                  [] OTHER -> "test"]
    /\ led_cfgs = {c \in LedConfigs : c.mode = "blink"}
    /\ attempt = 0
    /\ last_solid_rgb = NoRgb
    /\ led_sink = NoRgb
    /\ led_last = "none"
    /\ led_offs = 0
    /\ late_cmds = 0
    /\ full_sleeps = 0
    /\ m_screen = -1
    /\ final_saved = NoTuple
    /\ final_saves = 0

Goto(t, p) == t_pc' = [t_pc EXCEPT ![t] = p]

\* the thread is at the test of its loop, coming from its start or from a wait
AtLoop(t) == t_pc[t] \in {"test", "wait"}

\* a wait that ends with its timeout although the event is set is a full sleep
AfterWait(t) ==
    IF t_pc[t] = "wait" /\ shutdown /\ ~WaitResult(shutdown) THEN 1 ELSE full_sleeps

\* a sink command of a worker; it is late when the main thread has forced the
\* sink off
LateAfter(forced) == IF forced THEN 1 ELSE late_cmds

\* ---- ButtonHandler._run

\* `while not self._shutdown.is_set():` and a pass of the `for` loop in which
\* no debounced reading rises
ButtonsPoll ==
    /\ AtLoop("buttons")
    /\ Goto("buttons", IF shutdown THEN "done" ELSE "wait")
    /\ full_sleeps' = AfterWait("buttons")
    /\ UNCHANGED <<current_screen, brightness, version, backlight, publish_queue,
                   started, late_cmds>>

\* the test passes and the `for` loop comes to a button whose debounced reading
\* rises
ButtonsRise ==
    /\ AtLoop("buttons")
    /\ ~shutdown
    /\ started < MaxLifeMutations
    /\ started' = started + 1
    /\ Goto("buttons", "body")
    /\ full_sleeps' = AfterWait("buttons")
    /\ UNCHANGED <<current_screen, brightness, version, backlight, publish_queue,
                   late_cmds>>

\* `self._on_press(name)` and the rest of the pass
ButtonsPress ==
    /\ t_pc["buttons"] = "body"
    /\ \E name \in Polled :
        LET p == OnPress(name, PressState) IN
        /\ current_screen' = p.st.current_screen
        /\ brightness' = p.st.brightness
        /\ version' = p.st.version
        /\ backlight' = p.st.backlight
        /\ publish_queue' = p.st.publish_queue
        /\ late_cmds' =
            IF \E k \in 1..Len(p.st.calls) : p.st.calls[k] = "set_backlight"
            THEN LateAfter(BacklightForcedOff) ELSE late_cmds
    /\ Goto("buttons", "wait")
    /\ UNCHANGED <<started, full_sleeps>>

ButtonsStep ==
    /\ \/ ButtonsPoll
       \/ ButtonsRise
       \/ ButtonsPress
    /\ UNCHANGED <<led_cfgs, attempt, last_solid_rgb, led_sink, led_last, led_offs,
                   m_screen, final_saved, final_saves>>
    /\ UNCHANGED <<lock, sensor, mqtt, screen_count, shutdown, presses>>

\* ---- LEDController._run

\* where the animator goes when its loop ends
LedExitNoOff == "done"

LedExit == "off"

\* `while not self._shutdown.is_set():` finds the event set
LedLoopEnds ==
    /\ AtLoop("led")
    /\ shutdown
    /\ Goto("led", LedExit)
    /\ full_sleeps' = AfterWait("led")
    /\ UNCHANGED <<last_solid_rgb, led_sink, led_last, led_offs, late_cmds>>

\* the test finds the event clear, and the body of the loop up to its wait:
\* the blink and pulse branches drive the LED at every tick, the solid branch
\* when the colour differs from the last one
LedDrive ==
    /\ AtLoop("led")
    /\ ~shutdown
    /\ \E cfg \in led_cfgs :
        IF cfg.mode \in {"blink", "pulse"}
        THEN /\ last_solid_rgb' = NoRgb
             /\ \E f \in Factors(cfg.mode) : led_sink' = Scale(cfg.color, f)
             /\ led_last' = "animation"
             /\ late_cmds' = LateAfter(LedForcedOff)
        ELSE IF cfg.color # last_solid_rgb
        THEN /\ last_solid_rgb' = cfg.color
             /\ led_sink' = cfg.color
             /\ led_last' = "animation"
             /\ late_cmds' = LateAfter(LedForcedOff)
        ELSE UNCHANGED <<last_solid_rgb, led_sink, led_last, late_cmds>>
    /\ Goto("led", "wait")
    /\ full_sleeps' = AfterWait("led")
    /\ UNCHANGED led_offs

\* `self._display.set_led(0.0, 0.0, 0.0)` after the loop
LedOff ==
    /\ t_pc["led"] = "off"
    /\ led_sink' = Off
    /\ led_last' = "off"
    /\ led_offs' = led_offs + 1
    /\ late_cmds' = LateAfter(LedForcedOff)
    /\ Goto("led", "done")
    /\ UNCHANGED <<last_solid_rgb, full_sleeps>>

LedStep ==
    /\ \/ LedLoopEnds
       \/ LedDrive
       \/ LedOff
    /\ UNCHANGED <<led_cfgs, attempt, m_screen, final_saved, final_saves>>
    /\ UNCHANGED <<busVars, shutdown, backlight, publish_queue, presses>>

\* ---- SCD30Sensor._run

\* an attempt of the `for attempt in range(1, 13)` loop: the loop is left by
\* `break` when the sensor object is built, else the thread enters the wait of
\* the except clause
AfterAttempt(ok) == IF ok THEN "test" ELSE "wait_init"

\* the imports at the top of _run raise ImportError, or they succeed and the
\* first attempt is made
SensorImport(imported, ok) ==
    /\ t_pc["sensor"] = "import"
    /\ Goto("sensor", IF imported THEN AfterAttempt(ok) ELSE "done")
    /\ attempt' = IF imported THEN 1 ELSE attempt
    /\ UNCHANGED <<sensor, version, started, full_sleeps>>

\* `if self._shutdown.wait(timeout=5): return`, then the next attempt, or
\* `if scd is None: return` after the last one; the loop of 12 attempts is cut
\* to MaxAttempts
SensorInitWait(ok) ==
    /\ t_pc["sensor"] = "wait_init"
    /\ LET result == WaitResult(shutdown) IN
        /\ full_sleeps' = IF shutdown /\ ~result THEN 1 ELSE full_sleeps
        /\ IF result \/ attempt = MaxAttempts
           THEN Goto("sensor", "done") /\ UNCHANGED attempt
           ELSE Goto("sensor", AfterAttempt(ok)) /\ attempt' = attempt + 1
    /\ UNCHANGED <<sensor, version, started>>

\* `while not self._shutdown.is_set():` and the try block: update_sensor when
\* data is available (no publish topic is configured)
SensorRead(available) ==
    /\ AtLoop("sensor")
    /\ Goto("sensor", IF shutdown THEN "done" ELSE "wait")
    /\ available => (~shutdown /\ started < MaxLifeMutations)
    /\ IF available
       THEN /\ sensor' = NewReading(sensor, 400, 20, 40)
            /\ version' = BumpVersion(version)
            /\ started' = started + 1
       ELSE UNCHANGED <<sensor, version, started>>
    /\ full_sleeps' = AfterWait("sensor")
    /\ UNCHANGED attempt

SensorStep ==
    /\ \/ \E imported, ok \in BOOLEAN : SensorImport(imported, ok)
       \/ \E ok \in BOOLEAN : SensorInitWait(ok)
       \/ \E available \in BOOLEAN : SensorRead(available)
    /\ UNCHANGED <<led_cfgs, last_solid_rgb, led_sink, led_last, led_offs, late_cmds,
                   m_screen, final_saved, final_saves>>
    /\ UNCHANGED <<lock, mqtt, current_screen, screen_count, brightness, shutdown,
                   backlight, publish_queue, presses>>

\* ---- DisplayController._run

\* `while not self._shutdown.is_set():`, `version = get_version()` and
\* `if version != last_version:`
LoopRenderTest ==
    /\ AtLoop("render")
    /\ IF shutdown
       THEN Goto("render", "done") /\ UNCHANGED seen_version
       ELSE IF NeedsRender(version, last_version)
       THEN Goto("render", "body") /\ seen_version' = version
       ELSE Goto("render", "wait") /\ UNCHANGED seen_version
    /\ full_sleeps' = AfterWait("render")
    /\ UNCHANGED <<last_version, display_frame, late_cmds>>

\* the try block: a frame of the active screen is pushed and the version
\* recorded, unless render() or display() raises
LoopRenderFrame(raise) ==
    /\ t_pc["render"] = "body"
    /\ Goto("render", "wait")
    /\ last_version' = LastVersionAfter(raise, Recorded(seen_version, version), last_version)
    /\ IF ~raise
       THEN /\ display_frame' = Render(current_screen, seen_version)
            /\ late_cmds' = LateAfter(BacklightForcedOff)
       ELSE UNCHANGED <<display_frame, late_cmds>>
    /\ UNCHANGED <<seen_version, full_sleeps>>

LoopRenderStep ==
    /\ \/ LoopRenderTest
       \/ \E raise \in BOOLEAN : LoopRenderFrame(raise)
    /\ UNCHANGED <<led_cfgs, attempt, last_solid_rgb, led_sink, led_last, led_offs,
                   m_screen, final_saved, final_saves>>
    /\ UNCHANGED <<busVars, shutdown, backlight, publish_queue, presses>>

\* ---- App._persist_watcher

\* `last = (get_current_screen(), get_brightness())` and the first test of
\* `while not self._shutdown.is_set():`
LoopWatcherInit ==
    /\ t_pc["persist"] = "init"
    /\ w_last' = <<current_screen, brightness>>
    /\ Goto("persist", IF shutdown THEN "done" ELSE "wait")
    /\ UNCHANGED <<w_current, state_file, w_saves, full_sleeps>>

\* `self._shutdown.wait(timeout=1.0)` returns, then `current = ...` and the
\* comparison; the test of the loop when the tuples are equal
LoopWatcherPoll ==
    /\ t_pc["persist"] = "wait"
    /\ LET current == <<current_screen, brightness>> IN
        IF ShouldSave(current, w_last)
        THEN Goto("persist", "body") /\ w_current' = current
        ELSE Goto("persist", IF shutdown THEN "done" ELSE "wait")
             /\ UNCHANGED w_current
    /\ full_sleeps' = AfterWait("persist")
    /\ UNCHANGED <<w_last, state_file, w_saves>>

\* `persistence.save(self._state_file, current[0], current[1])`,
\* `last = current` and the test of the loop
LoopWatcherSave ==
    /\ t_pc["persist"] = "body"
    /\ state_file' = w_current
    /\ w_saves' = w_saves + 1
    /\ w_last' = w_current
    /\ Goto("persist", IF shutdown THEN "done" ELSE "wait")
    /\ UNCHANGED <<w_current, full_sleeps>>

LoopWatcherStep ==
    /\ \/ LoopWatcherInit
       \/ LoopWatcherPoll
       \/ LoopWatcherSave
    /\ UNCHANGED <<led_cfgs, attempt, last_solid_rgb, led_sink, led_last, led_offs,
                   late_cmds, m_screen, final_saved, final_saves>>
    /\ UNCHANGED <<busVars, shutdown, backlight, publish_queue, presses>>

\* ---- App.run from `self._shutdown.wait()` on

\* Thread.join returns once the thread has terminated
ButtonsJoinedAlways(p) == TRUE

ButtonsJoined(p) == p = "done"

RenderJoinedAlways(p) == TRUE

RenderJoined(p) == p = "done"

LedJoined(p) == p = "done"

SensorJoined(p) == p = "done"

MainSteps ==
    <<"wait_signal", "join_buttons", "join_render", "join_led", "join_sensor",
      "mqtt_stop", "led_off", "backlight_off", "save_screen", "save", "returned">>

MainIndex(p) == CHOOSE k \in 1..Len(MainSteps) : MainSteps[k] = p

\* the next line of run()
MainNext(p) == MainSteps[MainIndex(p) + 1]

\* the line of run() the main thread is at can return
MainCanStep(p) ==
    CASE p = "wait_signal" -> shutdown
      [] p = "join_buttons" -> ButtonsJoined(t_pc["buttons"])
      [] p = "join_render" -> RenderJoined(t_pc["render"])
      [] p = "join_led" -> LedJoined(t_pc["led"])
      [] p = "join_sensor" -> SensorJoined(t_pc["sensor"])
      [] p = "returned" -> FALSE
      [] OTHER -> TRUE

MainStep ==
    LET p == t_pc["main"] IN
    /\ MainCanStep(p)
    /\ Goto("main", MainNext(p))
    /\ led_sink' = IF p = "led_off" THEN Off ELSE led_sink
    /\ led_last' = IF p = "led_off" THEN "main" ELSE led_last
    /\ backlight' = IF p = "backlight_off" THEN 0 ELSE backlight
    /\ m_screen' = IF p = "save_screen" THEN current_screen ELSE m_screen
    /\ final_saved' = IF p = "save" THEN <<m_screen, brightness>> ELSE final_saved
    /\ final_saves' = IF p = "save" THEN final_saves + 1 ELSE final_saves
    /\ state_file' = IF p = "save" THEN <<m_screen, brightness>> ELSE state_file
    /\ UNCHANGED <<led_cfgs, attempt, last_solid_rgb, led_offs, late_cmds,
                   full_sleeps>>
    /\ UNCHANGED <<busVars, shutdown, publish_queue, presses>>

\* a further SIGINT or SIGTERM: `self._shutdown.set()` on an event that is set
HandleSignalAgain ==
    /\ shutdown
    /\ shutdown' = TRUE

\* what the threads of run() leave alone
watcherRest == <<w_pc, w_screen, lastPoll, s_changes, b_changes, due>>
renderRest == <<r_pc, idx, image, raises, iter, mutated>>

NextLife ==
    \/ /\ ButtonsStep
       /\ UNCHANGED <<state_file, w_last, w_saves, w_current, last_version, seen_version,
                      display_frame>>
    \/ /\ LedStep
       /\ UNCHANGED <<started, state_file, w_last, w_saves, w_current, last_version,
                      seen_version, display_frame>>
    \/ /\ SensorStep
       /\ UNCHANGED <<state_file, w_last, w_saves, w_current, last_version, seen_version,
                      display_frame>>
    \/ /\ MainStep
       /\ UNCHANGED <<started, w_last, w_saves, w_current, last_version, seen_version,
                      display_frame>>
    \/ /\ LoopRenderStep
       /\ UNCHANGED <<started, state_file, w_last, w_saves, w_current>>
    \/ /\ LoopWatcherStep
       /\ UNCHANGED <<started, last_version, seen_version, display_frame>>
    \/ /\ HandleSignal
       /\ UNCHANGED <<busVars, started, state_file, w_last, w_saves, w_current,
                      last_version, seen_version, display_frame, backlight,
                      publish_queue, presses>>
       /\ UNCHANGED lifeVars
    \/ /\ HandleSignalAgain
       /\ UNCHANGED <<busVars, started, state_file, w_last, w_saves, w_current,
                      last_version, seen_version, display_frame, backlight,
                      publish_queue, presses>>
       /\ UNCHANGED <<t_pc, led_cfgs, attempt, last_solid_rgb, led_sink, led_last,
                      led_offs, late_cmds, full_sleeps, m_screen, final_saved,
                      final_saves>>

\* App.__init__ with a brightness screen and a sensor screen and no state file:
\* the first screen is active; button A is bound to next_screen and button X to
\* nothing
InitLifeBus ==
    /\ screens = <<"brightness", "sensor">>
    /\ buttons = [b \in Polled |-> IF b = "A" THEN ButtonConfig("next_screen") ELSE NoConfig]
    /\ screen_count = Len(screens)
    /\ lock = NoOwner
    /\ sensor = EmptyReading
    /\ mqtt = [k \in SubIds |-> None]
    /\ current_screen = 0
    /\ version = 0
    /\ brightness = Clamp(1000)
    /\ backlight = 1000
    /\ prev_state = [b \in Polled |-> FALSE]
    /\ stable_state = [b \in Polled |-> FALSE]
    /\ counts = [b \in Polled |-> 0]
    /\ pos = 1
    /\ publish_queue = <<>>
    /\ hist = [b \in Polled |-> <<>>]
    /\ sincePress = [b \in Polled |-> "never"]
    /\ presses = 0
    /\ lastPress = NoPress

\* ------------------------------------------------------------------ MQTTClient

\* config.subscriptions: a plain value on one topic, a JSON field on another
Subscriptions ==
    {[id |-> "temp", topic |-> "home/temp", value_path |-> ""],
     [id |-> "door", topic |-> "home/door", value_path |-> "state"]}

\* the topics of the messages the broker delivers; no subscription has the last one
MessageTopics == {"home/temp", "home/door", "home/other"}

NoSub == [id |-> "", topic |-> "", value_path |-> ""]

\* self._subs_by_topic.get(topic)
SubsByTopic(topic) ==
    IF \E sub \in Subscriptions : sub.topic = topic
    THEN CHOOSE sub \in Subscriptions : sub.topic = topic
    ELSE NoSub

\* the payloads of inbound messages: the decoded text, whether float() accepts
\* its stripped form and with what result, whether json.loads gives an object,
\* and the value of that object under the key "state" (None: no such key)
Payloads ==
    {[text |-> "21", number |-> TRUE, n |-> 21, object |-> FALSE, leaf |-> None],
     [text |-> "open", number |-> FALSE, n |-> 0, object |-> FALSE, leaf |-> None],
     [text |-> "{state: open}", number |-> FALSE, n |-> 0, object |-> TRUE,
      leaf |-> Str("open")],
     [text |-> "{state: 1}", number |-> FALSE, n |-> 0, object |-> TRUE, leaf |-> Num(1)],
     [text |-> "{other: 1}", number |-> FALSE, n |-> 0, object |-> TRUE, leaf |-> None]}

\* MQTTClient._extract_value: the value, or an exception of json.loads or of
\* the traversal
ExtractValue(raw, value_path) ==
    IF value_path = ""
    THEN [raised |-> FALSE, value |-> IF raw.number THEN Num(raw.n) ELSE Str(raw.text)]
    ELSE IF ~raw.object \/ raw.leaf = None
    THEN [raised |-> TRUE, value |-> None]
    ELSE [raised |-> FALSE, value |-> raw.leaf]

\* the topics publish() is called with
PublishTopics == {"cmd/light"}

NoItem == <<"", "">>

NoEvent == [kind |-> "none", topic |-> "", before |-> <<>>, handled |-> TRUE]

InSeq(x, q) == \E k \in 1..Len(q) : q[k] = x

InitMqttIdle ==
    /\ n_pc = "off"
    /\ held = NoItem
    /\ sent = <<>>
    /\ connected = FALSE
    /\ subscribed = {}
    /\ published = 0
    /\ events = 0
    /\ ev = NoEvent

\* MQTTClient.__init__ and start(): the network thread runs, no callback yet
InitMqtt ==
    /\ n_pc = "idle"
    /\ held = NoItem
    /\ sent = <<>>
    /\ connected = FALSE
    /\ subscribed = {}
    /\ published = 0
    /\ events = 0
    /\ ev = NoEvent

\* MQTTClient.publish, called from any thread
Publish ==
    /\ n_pc # "off"
    /\ published < MaxPublishes
    /\ published' = published + 1
    /\ \E topic \in PublishTopics :
        publish_queue' = Append(publish_queue, <<topic, ToString(published + 1)>>)
    /\ UNCHANGED <<n_pc, held, sent, connected, subscribed, events, ev, mqtt, version>>

\* a callback starts
Begin(kind, topic) ==
    /\ n_pc = "idle"
    /\ events < MaxMqttEvents
    /\ events' = events + 1
    /\ ev' = [kind |-> kind, topic |-> topic, before |-> publish_queue, handled |-> FALSE]

\* a callback returns without a drain
Return(kind, topic) ==
    /\ n_pc = "idle"
    /\ events < MaxMqttEvents
    /\ events' = events + 1
    /\ ev' = [kind |-> kind, topic |-> topic, before |-> publish_queue, handled |-> TRUE]
    /\ UNCHANGED n_pc

\* _on_connect with a failure reason code
OnConnectFailure ==
    /\ ~connected
    /\ Return("connect_failed", "")
    /\ UNCHANGED <<held, sent, connected, subscribed, published, publish_queue, mqtt,
                   version>>

\* _on_connect: the subscriptions, then the drain
OnConnect ==
    /\ ~connected
    /\ Begin("connect", "")
    /\ connected' = TRUE
    /\ subscribed' = {sub.topic : sub \in Subscriptions}
    /\ n_pc' = "drain"
    /\ UNCHANGED <<held, sent, published, publish_queue, mqtt, version>>

\* _on_message: `if sub is None: return`, else the try block, then the drain
OnMessage(topic, payload) ==
    /\ connected
    /\ LET sub == SubsByTopic(topic) IN
        IF sub = NoSub
        THEN /\ Return("message", topic)
             /\ UNCHANGED <<mqtt, version>>
        ELSE /\ Begin("message", topic)
             /\ n_pc' = "drain"
             /\ LET r == ExtractValue(payload, sub.value_path) IN
                 IF r.raised
                 THEN UNCHANGED <<mqtt, version>>
                 ELSE /\ mqtt' = [mqtt EXCEPT ![sub.id] = r.value]
                      /\ version' = BumpVersion(version)
    /\ UNCHANGED <<held, sent, connected, subscribed, published, publish_queue>>

\* _on_disconnect
OnDisconnect ==
    /\ connected
    /\ Return("disconnect", "")
    /\ connected' = FALSE
    /\ UNCHANGED <<held, sent, subscribed, published, publish_queue, mqtt, version>>

\* mutant: the item is returned and left in the queue
GetNowaitPeek(q) == [item |-> Head(q), rest |-> q]

\* Queue.get_nowait() on a queue that is not empty: the oldest item, removed
GetNowait(q) == [item |-> Head(q), rest |-> Tail(q)]

\* _drain_publish_queue: `while not self._publish_queue.empty():` and
\* get_nowait(); the network thread is the only one that takes from the queue
DrainGet ==
    /\ n_pc = "drain"
    /\ IF publish_queue = <<>>
       THEN /\ n_pc' = "idle"
            /\ ev' = [ev EXCEPT !.handled = TRUE]
            /\ UNCHANGED <<held, publish_queue>>
       ELSE /\ n_pc' = "publish"
            /\ held' = GetNowait(publish_queue).item
            /\ publish_queue' = GetNowait(publish_queue).rest
            /\ UNCHANGED ev
    /\ UNCHANGED <<sent, connected, subscribed, published, events, mqtt, version>>

\* `client.publish(topic, payload, qos=1)`
DrainPublish ==
    /\ n_pc = "publish"
    /\ sent' = Append(sent, held)
    /\ n_pc' = "drain"
    /\ UNCHANGED <<held, connected, subscribed, published, events, ev, publish_queue,
                   mqtt, version>>

\* what the messaging client leaves alone
mqttRest ==
    <<lock, sensor, current_screen, screen_count, brightness, prev_state, stable_state,
      counts, pos, screens, buttons, backlight, hist, sincePress, presses, lastPress>>

NextMqtt ==
    /\ \/ Publish
       \/ OnConnectFailure
       \/ OnConnect
       \/ \E topic \in MessageTopics, payload \in Payloads : OnMessage(topic, payload)
       \/ OnDisconnect
       \/ DrainGet
       \/ DrainPublish
    /\ UNCHANGED mqttRest

\* ------------------------------------------------------------------ SharedState, one caller

\* the initial_brightness the constructor may be given and the values
\* set_brightness may be called with, in thousandths (no ties)
AnyBrightness == {-1000, 0, 44, 46, 50, 333, 337, 996, 1000, 1004, 5000}

\* SharedState.__init__ with any initial brightness, then the restore of the
\* saved screen in App.__init__
InitBusAny ==
    /\ lock = NoOwner
    /\ sensor = EmptyReading
    /\ mqtt = [k \in SubIds |-> None]
    /\ screen_count \in 1..MaxScreens
    /\ \E saved \in SavedScreens :
        LET initial_screen == ClampScreen(saved, screen_count) IN
        /\ current_screen = NextScreenTimes(0, screen_count, initial_screen)
        /\ version = initial_screen
    /\ \E b \in AnyBrightness : brightness = Clamp(b)

\* one whole call of SharedState.set_brightness(value)
SetBrightnessCall(value) ==
    /\ started < MaxSets
    /\ LET st == SetBrightness(PressState, value) IN
        /\ brightness' = st.brightness
        /\ version' = st.version
        /\ lastRet' = [w |-> "buttons", name |-> "set_brightness", val |-> Num(value),
                       ver |-> st.version]
    /\ started' = started + 1
    /\ completed' = completed + 1
    /\ UNCHANGED <<lock, sensor, mqtt, current_screen, screen_count>>
    /\ UNCHANGED <<workerVars, writes, lastIo, lastNav>>

NextSet == \E value \in AnyBrightness : SetBrightnessCall(value)

\* ------------------------------------------------------------------ a caller of the getters

\* the caller holds nothing
NoGot == [kind |-> "none", val |-> None, same |-> FALSE, last |-> "none"]

\* AlertConfig / LedIdleConfig as the animator reads them: color, mode and the
\* rate (blink_hz or pulse_hz; getattr's default where the object has none)
Led(color, mode, hz) == [color |-> color, mode |-> mode, hz |-> hz]

NoLed == Led(NoRgb, "none", 0)

NoLoc == [reading |-> EmptyReading, alert |-> 0]

\* the construction of App is not part of the specification
NoBoot == [pc |-> "off", config |-> <<>>, saved |-> 0, initial_brightness |-> 0]

NoPrefetch == [pc |-> "off", k |-> 0]

\* no fallible step yet; exc is "" where a step raised nothing
NoFault == [who |-> "none", exc |-> "", propagated |-> FALSE]

NoIteration ==
    [evaluated |-> FALSE, idx |-> 0, used |-> NoLed, cmd |-> FALSE, tick |-> 0,
     prev |-> NoLed]

\* the threads that call persistence.save
Savers == {"persist", "main"}

\* no file of that name; a file that open(tmp, "w") has created or truncated
Absent == <<-2, -2>>
Truncated == <<-3, -3>>

\* no temporary file, no caller has a file open, no statement of a save of the
\* watcher has run after run() entered its final save
NoFs == [tmp |-> Absent, at |-> [w \in Savers |-> "none"], late |-> FALSE]

\* the button thread is between two presses
NoOffer == [at |-> "idle", name |-> "none", screen |-> -1, b |-> -1, v |-> -1, n |-> 0]

\* no frame has been drawn
NoDrawn == [idx_at |-> -1, pushed_at |-> -1]

InitLateIdle == drawn = NoDrawn /\ during = {} /\ fs = NoFs /\ offer = NoOffer

InitExtraIdle ==
    /\ got = NoGot
    /\ led_idle = NoLed
    /\ led_loc = NoLoc
    /\ led_obs = NoIteration
    /\ pf = NoPrefetch
    /\ fault = NoFault
    /\ boot = NoBoot
    /\ InitLateIdle

\* the bus no longer refers to the object the caller holds
Replaced(g) == [g EXCEPT !.same = FALSE, !.last = "none"]

\* one whole call of SharedState.update_sensor: the bus refers to a new object
UpdateSensorCall(co2, temperature, humidity) ==
    /\ started < MaxMutations
    /\ sensor' = NewReading(sensor, co2, temperature, humidity)
    /\ version' = BumpVersion(version)
    /\ got' = IF got.kind = "get_sensor" THEN Replaced(got) ELSE [got EXCEPT !.last = "none"]
    /\ started' = started + 1
    /\ completed' = completed + 1
    /\ UNCHANGED <<lock, mqtt, current_screen, screen_count, brightness>>

\* one whole call of SharedState.update_mqtt: the entry of _mqtt is rebound
UpdateMqttCall(sub_id, value) ==
    /\ started < MaxMutations
    /\ mqtt' = [mqtt EXCEPT ![sub_id] = value]
    /\ version' = BumpVersion(version)
    /\ got' = [got EXCEPT !.last = "none"]
    /\ started' = started + 1
    /\ completed' = completed + 1
    /\ UNCHANGED <<lock, sensor, current_screen, screen_count, brightness>>

\* get_sensor: `return self._sensor`, the object the bus refers to
GetSensorCall ==
    /\ got' = [kind |-> "get_sensor", val |-> sensor, same |-> TRUE, last |-> "get"]
    /\ UNCHANGED <<busVars, started, completed>>

\* get_all_mqtt: `return dict(self._mqtt)`, a new dictionary
GetAllMqttCall ==
    /\ got' = [kind |-> "get_all_mqtt", val |-> mqtt, same |-> FALSE, last |-> "get"]
    /\ UNCHANGED <<busVars, started, completed>>

\* get_mqtt: `return self._mqtt.get(sub_id)`; the values used here are None,
\* numbers and strings, which no caller can modify
GetMqttCall(sub_id) ==
    /\ got' = [kind |-> "get_mqtt", val |-> mqtt[sub_id], same |-> FALSE, last |-> "get"]
    /\ UNCHANGED <<busVars, started, completed>>

\* the values a caller assigns
CallerValues == {Num(0)}

\* the caller assigns to a field of the SensorReading it got: the object is a
\* dataclass that is not frozen, and it is the bus's object while same holds
ModifyReading(value) ==
    /\ got.kind = "get_sensor"
    /\ got' = [got EXCEPT !.val.co2 = value, !.last = "modify"]
    /\ sensor' = IF got.same THEN [sensor EXCEPT !.co2 = value] ELSE sensor
    /\ UNCHANGED <<lock, mqtt, current_screen, screen_count, brightness, version>>
    /\ UNCHANGED <<started, completed>>

\* the caller assigns to a key of the dictionary it got
ModifyDict(sub_id, value) ==
    /\ got.kind = "get_all_mqtt"
    /\ got' = [got EXCEPT !.val[sub_id] = value, !.last = "modify"]
    /\ UNCHANGED <<busVars, started, completed>>

NextCopy ==
    /\ \/ \E c \in SensorSamples : UpdateSensorCall(c[1], c[2], c[3])
       \/ \E c \in MqttInputs : UpdateMqttCall(c[1], c[2])
       \/ GetSensorCall
       \/ GetAllMqttCall
       \/ \E k \in SubIds : GetMqttCall(k)
       \/ \E v \in CallerValues : ModifyReading(v)
       \/ \E k \in SubIds, v \in CallerValues : ModifyDict(k, v)
    /\ UNCHANGED <<workerVars, writes, lastRet, lastIo, lastNav>>

\* ------------------------------------------------------------------ LEDController._run, tick by tick

\* _TICK and _TICK_SOLID, in milliseconds
TICK == 50
TICK_SOLID == 500

\* an alert rule with the LED fields of AlertConfig
LedRule(source, op_str, threshold, priority, led) ==
    [source |-> source, op |-> op_str, threshold |-> threshold, priority |-> priority,
     led |-> led]

\* the configured rules: a steady one and, above it, a blinking one
LedRules ==
    <<LedRule(Source("mqtt", "door"), "==", Str("ON"), 5, Led(<<1000, 1000, 0>>, "solid", 2)),
      LedRule(Source("sensor", "co2"), ">=", Num(1000), 10, Led(<<1000, 0, 0>>, "blink", 4))>>

\* led.idle of the configuration
IdleConfigs ==
    {Led(<<0, 1000, 0>>, "solid", 2), Led(<<1000, 1000, 0>>, "solid", 2),
     Led(<<0, 0, 1000>>, "pulse", 1)}

\* mutant: the idle configuration is used whether or not a rule matched
CfgIdle(alert, idle) == idle

\* `cfg = alert if alert is not None else self._idle`; alert is the declared
\* position of the rule, 0 for None
CfgOf(alert, idle) == IF alert # 0 THEN alerts[alert].led ELSE idle

\* mutant: the solid branch drives the LED in every iteration
SolidChangedAlways(rgb, last) == TRUE

\* `rgb != _last_solid_rgb`
SolidChanged(rgb, last) == rgb # last

\* the timeout of the wait that ends an iteration
TickOf(mode) == IF mode \in {"blink", "pulse"} THEN TICK ELSE TICK_SOLID

InitLed ==
    /\ alerts = LedRules
    /\ order = SortedByPriority(alerts)
    /\ alertOut = NoOut
    /\ led_idle \in IdleConfigs
    /\ led_loc = NoLoc
    /\ led_obs = NoIteration
    /\ got = NoGot
    /\ pf = NoPrefetch
    /\ fault = NoFault
    /\ boot = NoBoot
    /\ InitLateIdle
    /\ t_pc = [t \in LifeThreads |-> IF t = "led" THEN "test" ELSE "off"]
    /\ led_cfgs = {}
    /\ attempt = 0
    /\ last_solid_rgb = NoRgb
    /\ led_sink = NoRgb
    /\ led_last = "none"
    /\ led_offs = 0
    /\ late_cmds = 0
    /\ full_sleeps = 0
    /\ m_screen = -1
    /\ final_saved = NoTuple
    /\ final_saves = 0

ledRest == <<led_cfgs, attempt, m_screen, final_saved, final_saves, led_offs, late_cmds,
             full_sleeps>>

\* `while not self._shutdown.is_set():` finds the event clear, and the first
\* statement of active_alert: `sensor = self._state.get_sensor()`
LedGetSensor ==
    /\ t_pc["led"] = "test"
    /\ ~shutdown
    /\ led_loc' = [led_loc EXCEPT !.reading = sensor]
    /\ led_obs' = [NoIteration EXCEPT !.prev = led_obs.used]
    /\ Goto("led", "eval")
    /\ UNCHANGED <<last_solid_rgb, led_sink, led_last>>

\* the rest of active_alert: get_all_mqtt() and the loop over the rules
LedActiveAlert ==
    /\ t_pc["led"] = "eval"
    /\ LET out == ActiveAlert(order, alerts, led_loc.reading, mqtt) IN
        /\ led_loc' = [led_loc EXCEPT !.alert = out.idx]
        /\ led_obs' = [led_obs EXCEPT !.evaluated = TRUE, !.idx = out.idx]
    /\ Goto("led", "drive")
    /\ UNCHANGED <<last_solid_rgb, led_sink, led_last>>

\* lines 49-73 up to the wait: the branch on cfg.mode
LedBranch ==
    /\ t_pc["led"] = "drive"
    /\ LET cfg == CfgOf(led_loc.alert, led_idle) IN
        /\ IF cfg.mode \in {"blink", "pulse"}
           THEN /\ last_solid_rgb' = NoRgb
                /\ \E f \in Factors(cfg.mode) : led_sink' = Scale(cfg.color, f)
                /\ led_last' = "animation"
                /\ led_obs' = [led_obs EXCEPT !.used = cfg, !.cmd = TRUE,
                                              !.tick = TickOf(cfg.mode)]
           ELSE IF SolidChanged(cfg.color, last_solid_rgb)
           THEN /\ last_solid_rgb' = cfg.color
                /\ led_sink' = cfg.color
                /\ led_last' = "animation"
                /\ led_obs' = [led_obs EXCEPT !.used = cfg, !.cmd = TRUE,
                                              !.tick = TickOf(cfg.mode)]
           ELSE /\ led_obs' = [led_obs EXCEPT !.used = cfg, !.tick = TickOf(cfg.mode)]
                /\ UNCHANGED <<last_solid_rgb, led_sink, led_last>>
    /\ Goto("led", "wait")
    /\ UNCHANGED led_loc

\* `self._shutdown.wait(timeout=...)` runs to its timeout
LedTick ==
    /\ t_pc["led"] = "wait"
    /\ Goto("led", "test")
    /\ UNCHANGED <<last_solid_rgb, led_sink, led_last, led_loc, led_obs>>

LedIteration ==
    /\ \/ LedGetSensor
       \/ LedActiveAlert
       \/ LedBranch
       \/ LedTick
    /\ UNCHANGED <<busVars, started, completed, got, shutdown>>

\* the other threads change what the rules read
LedBusChanges ==
    /\ \/ \E c \in SensorSamples : UpdateSensorCall(c[1], c[2], c[3])
       \/ \E c \in MqttInputs : UpdateMqttCall(c[1], c[2])
    /\ UNCHANGED <<t_pc, last_solid_rgb, led_sink, led_last, led_loc, led_obs, shutdown>>

\* the contents the bus has had since active_alert was entered: the one its
\* get_sensor found, and the one after each mutation that completes before
\* the call returns
DuringAfter ==
    IF t_pc["led"] = "test" /\ t_pc'["led"] = "eval" THEN {<<sensor, mqtt>>}
    ELSE IF t_pc["led"] = "eval" THEN during \cup {<<sensor', mqtt'>>}
    ELSE during

NextLed ==
    /\ LedIteration \/ LedBusChanges
    /\ UNCHANGED <<alerts, order, alertOut, led_idle, ledRest>>
    /\ UNCHANGED <<workerVars, writes, lastRet, lastIo, lastNav>>

\* ------------------------------------------------------------------ ButtonHandler._on_press, every button

\* the keys of _BUTTON_PINS
PinNames == {"A", "B", "X", "Y"}

PressActions == {"next_screen", "mqtt_publish", "reboot"}
PressTables == [PinNames -> {NoConfig} \cup {ButtonConfig(a) : a \in PressActions}]

\* the brightness the bus is constructed with: it starts at a limit or inside
PressBrightness == {-1000, 333, 5000}

\* App.__init__ with a screen list and a button table for the four buttons
InitPress ==
    /\ screens \in ScreenLists
    /\ buttons \in PressTables
    /\ screen_count = Len(screens)
    /\ lock = NoOwner
    /\ sensor = EmptyReading
    /\ mqtt = [k \in SubIds |-> None]
    /\ \E saved \in SavedScreens :
        LET initial_screen == ClampScreen(saved, screen_count) IN
        /\ current_screen = NextScreenTimes(0, screen_count, initial_screen)
        /\ version = initial_screen
    /\ \E b \in PressBrightness :
        /\ brightness = Clamp(b)
        /\ backlight = b
    /\ prev_state = [b \in Polled |-> FALSE]
    /\ stable_state = [b \in Polled |-> FALSE]
    /\ counts = [b \in Polled |-> 0]
    /\ pos = 1
    /\ publish_queue = <<>>
    /\ hist = [b \in Polled |-> <<>>]
    /\ sincePress = [b \in Polled |-> "never"]
    /\ presses = 0
    /\ lastPress = NoPress

\* one whole call of _on_press(name), for a debounced press of the button
Press(name) ==
    /\ presses < MaxDirectPresses
    /\ LET p == OnPress(name, PressState) IN
        /\ current_screen' = p.st.current_screen
        /\ brightness' = p.st.brightness
        /\ version' = p.st.version
        /\ backlight' = p.st.backlight
        /\ publish_queue' = p.st.publish_queue
        /\ lastPress' = [name |-> name, offered |-> p.offered, consumed |-> p.consumed,
                         calls |-> p.st.calls, since |-> "never"]
    /\ presses' = presses + 1
    /\ UNCHANGED <<lock, sensor, mqtt, screen_count>>
    /\ UNCHANGED <<prev_state, stable_state, counts, pos, screens, buttons, hist, sincePress>>

NextPress == \E name \in PinNames : Press(name)

\* ------------------------------------------------------------------ the fallible steps of the workers

\* the exception classes the steps can raise, each with its base classes up
\* to Exception
Bases(exc) ==
    CASE exc = "HTTPError" -> {"HTTPError", "URLError", "OSError", "Exception"}
      [] exc = "URLError" -> {"URLError", "OSError", "Exception"}
      [] exc = "TimeoutError" -> {"TimeoutError", "OSError", "Exception"}
      [] exc = "OSError" -> {"OSError", "Exception"}
      [] exc = "JSONDecodeError" -> {"JSONDecodeError", "ValueError", "Exception"}
      [] exc = "ValueError" -> {"ValueError", "Exception"}
      [] exc = "KeyError" -> {"KeyError", "LookupError", "Exception"}
      [] exc = "TypeError" -> {"TypeError", "Exception"}
      [] exc = "RuntimeError" -> {"RuntimeError", "Exception"}
      [] OTHER -> {"Exception"}

\* `except <classes>:` handles exc
Handles(classes, exc) == Bases(exc) \cap classes # {}

\* `except Exception:` of SCD30Sensor._run and of MQTTClient._on_message
CatchAll == {"Exception"}

\* `except urllib.error.URLError` and `except (KeyError, json.JSONDecodeError)`
\* of prefetch
PrefetchCatches == {"URLError", "KeyError", "JSONDecodeError"}

\* what the driver raises in `scd.data_available`, `scd.CO2`, ...: an I/O error
\* of the bus or a failed checksum
SensorErrors == {"OSError", "RuntimeError"}

\* what urlopen, resp.read(), json.loads and data["state"] raise: no
\* connection, an HTTP error status, a read that times out, a body that is no
\* JSON, an object without "state", a JSON value that is no object
PrefetchErrors ==
    {"URLError", "HTTPError", "TimeoutError", "JSONDecodeError", "KeyError", "TypeError"}

\* str(data["state"]) of a response, with float(raw) where raw is a number
HaStates ==
    {[raw |-> "21", value |-> Num(21)], [raw |-> "on", value |-> Str("on")],
     [raw |-> "unknown", value |-> Str("unknown")],
     [raw |-> "unavailable", value |-> Str("unavailable")]}

\* the subscriptions with an entity_id, in configuration order
Eligible == <<"temp", "door">>

\* App.run has started the messaging client and the sensor and calls prefetch
InitFaults ==
    /\ pf = [pc |-> "loop", k |-> 0]
    /\ fault = NoFault
    /\ got = NoGot
    /\ led_idle = NoLed
    /\ led_loc = NoLoc
    /\ led_obs = NoIteration
    /\ boot = NoBoot
    /\ InitLateIdle

Bounded == started < MaxMutations

Counted ==
    /\ started' = started + 1
    /\ completed' = completed + 1

\* a step of a worker that raised exc (or nothing) where the handlers in
\* classes are in place
Outcome(who, exc, classes) ==
    [who |-> who, exc |-> exc, propagated |-> exc # "" /\ ~Handles(classes, exc)]

\* an iteration of the sensor loop in which no data is available
SensorIdle ==
    /\ fault' = Outcome("sensor", "", CatchAll)
    /\ UNCHANGED <<sensor, mqtt, version, pf, started, completed>>

\* an iteration in which the reading is taken and stored
SensorReadOk(co2, temperature, humidity) ==
    /\ Bounded
    /\ sensor' = NewReading(sensor, co2, temperature, humidity)
    /\ version' = BumpVersion(version)
    /\ Counted
    /\ fault' = Outcome("sensor", "", CatchAll)
    /\ UNCHANGED <<mqtt, pf>>

\* an iteration in which the driver raises before update_sensor is reached
SensorReadFails(exc) ==
    /\ fault' = Outcome("sensor", exc, CatchAll)
    /\ UNCHANGED <<sensor, mqtt, version, pf, started, completed>>

\* _on_message for a subscribed topic, up to the drain; what json.loads or the
\* traversal raised is recorded as a KeyError
MessageCall(topic, payload) ==
    /\ SubsByTopic(topic) # NoSub
    /\ LET sub == SubsByTopic(topic)
           r == ExtractValue(payload, sub.value_path)
       IN  IF r.raised
           THEN /\ fault' = Outcome("message", "KeyError", CatchAll)
                /\ UNCHANGED <<mqtt, version, started, completed>>
           ELSE /\ Bounded
                /\ mqtt' = [mqtt EXCEPT ![sub.id] = r.value]
                /\ version' = BumpVersion(version)
                /\ Counted
                /\ fault' = Outcome("message", "", CatchAll)
    /\ UNCHANGED <<sensor, pf>>

\* where prefetch is after the subscription at k + 1: the next one, its return,
\* or the exception on its way through App.run
AfterSub(k, propagated) ==
    IF propagated THEN [pc |-> "raised", k |-> k]
    ELSE IF k + 1 = Len(Eligible) THEN [pc |-> "returned", k |-> k + 1]
    ELSE [pc |-> "loop", k |-> k + 1]

\* the body of `for sub in eligible` with a response whose state is st
PrefetchOk(st) ==
    /\ pf.pc = "loop"
    /\ IF st.raw \in {"unknown", "unavailable"}
       THEN UNCHANGED <<mqtt, version, started, completed>>
       ELSE /\ Bounded
            /\ mqtt' = [mqtt EXCEPT ![Eligible[pf.k + 1]] = st.value]
            /\ version' = BumpVersion(version)
            /\ Counted
    /\ fault' = Outcome("prefetch", "", PrefetchCatches)
    /\ pf' = AfterSub(pf.k, FALSE)
    /\ UNCHANGED sensor

\* the body of the loop when the request or the decoding raises
PrefetchFails(exc) ==
    /\ pf.pc = "loop"
    /\ fault' = Outcome("prefetch", exc, PrefetchCatches)
    /\ pf' = AfterSub(pf.k, fault'.propagated)
    /\ UNCHANGED <<sensor, mqtt, version, started, completed>>

NextFaults ==
    /\ \/ SensorIdle
       \/ \E c \in SensorSamples : SensorReadOk(c[1], c[2], c[3])
       \/ \E exc \in SensorErrors : SensorReadFails(exc)
       \/ \E topic \in MessageTopics, payload \in Payloads : MessageCall(topic, payload)
       \/ \E st \in HaStates : PrefetchOk(st)
       \/ \E exc \in PrefetchErrors : PrefetchFails(exc)
    /\ UNCHANGED <<lock, current_screen, screen_count, brightness>>
    /\ UNCHANGED <<workerVars, writes, lastRet, lastIo, lastNav>>
    /\ UNCHANGED <<got, led_idle, led_loc, led_obs, boot, lateVars>>

\* ------------------------------------------------------------------ App.__init__

\* the `type` of a configured screen; _build_screens knows the first three
ScreenTypes == {"sensor", "mqtt", "brightness", "led_brightness"}
BuiltTypes == {"sensor", "mqtt", "brightness"}

ScreenConfigs == UNION {[1..n -> ScreenTypes] : n \in 0..MaxConfigScreens}

\* _build_screens: a screen for each entry of a known type, in order; an entry
\* of another type is skipped with a warning
RECURSIVE BuildScreens(_)
BuildScreens(configs) ==
    IF configs = <<>> THEN <<>>
    ELSE IF Head(configs) \in BuiltTypes
    THEN <<Head(configs)>> \o BuildScreens(Tail(configs))
    ELSE BuildScreens(Tail(configs))

\* mutant: the bus is told the number of configured screens
CountConfigured(built, configs) == Len(configs)

\* `screen_count=len(screens)`
CountBuilt(built, configs) == Len(built)

\* the button table of the configuration
StartTable ==
    [b \in PinNames |->
        CASE b = "A" -> ButtonConfig("next_screen")
          [] b = "B" -> ButtonConfig("prev_screen")
          [] b = "X" -> ButtonConfig("mqtt_publish")
          [] OTHER -> NoConfig]

\* before App(config, state_file): a configuration and a state file
InitStart ==
    /\ \E configs \in ScreenConfigs, saved \in SavedScreens, b \in InitialBrightness :
        boot = [pc |-> "init", config |-> configs, saved |-> saved,
                initial_brightness |-> b]
    /\ screens = <<>>
    /\ buttons = StartTable
    /\ screen_count = 0
    /\ current_screen = 0
    /\ version = 0
    /\ brightness = 1000
    /\ backlight = 0
    /\ lock = NoOwner
    /\ sensor = EmptyReading
    /\ mqtt = [k \in SubIds |-> None]
    /\ prev_state = [b \in Polled |-> FALSE]
    /\ stable_state = [b \in Polled |-> FALSE]
    /\ counts = [b \in Polled |-> 0]
    /\ pos = 1
    /\ publish_queue = <<>>
    /\ hist = [b \in Polled |-> <<>>]
    /\ sincePress = [b \in Polled |-> "never"]
    /\ presses = 0
    /\ lastPress = NoPress

\* App.__init__ raises RuntimeError: no screen was built
StartFatal ==
    /\ boot.pc = "init"
    /\ BuildScreens(boot.config) = <<>>
    /\ boot' = [boot EXCEPT !.pc = "fatal"]
    /\ UNCHANGED <<busVars, buttonVars>>

\* App.__init__ with at least one screen: the bus, the restore of the saved
\* screen, the backlight, and the list handed to the renderer and the buttons
StartApp ==
    /\ boot.pc = "init"
    /\ LET built == BuildScreens(boot.config)
           count == CountBuilt(built, boot.config)
           initial_screen == ClampScreen(boot.saved, Len(built))
       IN  /\ built # <<>>
           /\ screens' = built
           /\ screen_count' = count
           /\ current_screen' = NextScreenTimes(0, count, initial_screen)
           /\ version' = initial_screen
           /\ brightness' = Clamp(boot.initial_brightness)
           /\ backlight' = boot.initial_brightness
    /\ boot' = [boot EXCEPT !.pc = "running"]
    /\ UNCHANGED <<lock, sensor, mqtt>>
    /\ UNCHANGED <<prev_state, stable_state, counts, pos, buttons, publish_queue, hist,
                   sincePress, presses, lastPress>>

\* a press dispatched by the button thread of the running application
RunningPress ==
    /\ boot.pc = "running"
    /\ \E name \in PinNames : Press(name)
    /\ UNCHANGED boot

NextStart == StartFatal \/ StartApp \/ RunningPress

\* ------------------------------------------------------------------ specifications

\* what a specification leaves idle
otherVars == <<renderVars, persistVars, lifeVars, mqttVars, extraVars>>

InitOthersIdle ==
    InitRenderIdle /\ InitPersistIdle /\ InitLifeIdle /\ InitMqttIdle /\ InitExtraIdle

NextBus == BusStep /\ UNCHANGED <<alertVars, buttonVars, otherVars>>

InitSpecBus ==
    InitBus /\ InitWorkers /\ InitObs /\ InitAlertIdle /\ InitButtonsIdle /\ InitOthersIdle

SpecBus == InitSpecBus /\ [][NextBus]_vars

NextSpecAlert == NextAlert /\ UNCHANGED otherVars

InitSpecAlert == InitAlert /\ InitWorkers /\ InitObs /\ InitButtonsIdle /\ InitOthersIdle

SpecAlert == InitSpecAlert /\ [][NextSpecAlert]_vars

NextSpecButtons == NextButtons /\ UNCHANGED otherVars

InitSpecButtons == InitButtons /\ InitWorkers /\ InitObs /\ InitAlertIdle /\ InitOthersIdle

SpecButtons == InitSpecButtons /\ [][NextSpecButtons]_vars

NextSpecRender ==
    NextRender
    /\ UNCHANGED <<workerVars, alertVars, buttonVars, persistVars, lifeVars, mqttVars>>
    /\ UNCHANGED extraVars

InitSpecRender ==
    /\ InitBus /\ InitWorkers /\ InitObs /\ InitAlertIdle /\ InitButtonsIdle
    /\ InitRender /\ InitPersistIdle /\ InitLifeIdle /\ InitMqttIdle /\ InitExtraIdle

SpecRender == InitSpecRender /\ [][NextSpecRender]_vars

NextSpecPersist ==
    /\ NextPersist
    /\ UNCHANGED <<workerVars, alertVars, buttonVars>>
    /\ UNCHANGED <<r_pc, seen_version, last_version, idx, image, display_frame, raises,
                   iter, mutated>>
    /\ UNCHANGED <<lifeVars, mqttVars, extraVars>>

InitSpecPersist ==
    /\ InitBus /\ InitWorkers /\ InitObs /\ InitAlertIdle /\ InitButtonsIdle
    /\ InitRenderIdle /\ InitPersist /\ InitLifeIdle /\ InitMqttIdle /\ InitExtraIdle

SpecPersist == InitSpecPersist /\ [][NextSpecPersist]_vars

NextSpecLife ==
    /\ NextLife
    /\ UNCHANGED <<workerVars, alertVars, completed, writes, lastRet, lastIo, lastNav>>
    /\ UNCHANGED <<prev_state, stable_state, counts, pos, screens, buttons, hist,
                   sincePress, lastPress>>
    /\ UNCHANGED <<watcherRest, renderRest, mqttVars, extraVars>>

InitSpecLife ==
    /\ InitLifeBus /\ InitWorkers /\ InitObs /\ InitAlertIdle
    /\ InitRenderIdle /\ InitPersistIdle /\ InitLife /\ InitMqttIdle /\ InitExtraIdle

SpecLife == InitSpecLife /\ [][NextSpecLife]_vars

\* the scheduler runs some thread as long as one of them can move to another
\* position
LifeThreadStep ==
    ButtonsStep \/ LedStep \/ SensorStep \/ MainStep \/ LoopRenderStep \/ LoopWatcherStep

FairLife == WF_t_pc(LifeThreadStep)

SpecLifeFair == SpecLife /\ FairLife

NextSpecMqtt ==
    /\ NextMqtt
    /\ UNCHANGED <<workerVars, obsVars, alertVars, renderVars, persistVars, lifeVars>>
    /\ UNCHANGED extraVars

InitSpecMqtt ==
    /\ InitBus /\ InitWorkers /\ InitObs /\ InitAlertIdle /\ InitButtonsIdle
    /\ InitRenderIdle /\ InitPersistIdle /\ InitLifeIdle /\ InitMqtt /\ InitExtraIdle

SpecMqtt == InitSpecMqtt /\ [][NextSpecMqtt]_vars

NextSpecSet == NextSet /\ UNCHANGED <<alertVars, buttonVars, otherVars>>

InitSpecSet ==
    InitBusAny /\ InitWorkers /\ InitObs /\ InitAlertIdle /\ InitButtonsIdle /\ InitOthersIdle

SpecSet == InitSpecSet /\ [][NextSpecSet]_vars

NextSpecCopy ==
    /\ NextCopy
    /\ UNCHANGED <<alertVars, buttonVars, renderVars, persistVars, lifeVars, mqttVars>>
    /\ UNCHANGED <<led_idle, led_loc, led_obs, pf, fault, boot, lateVars>>

InitSpecCopy ==
    /\ InitBus /\ InitWorkers /\ InitObs /\ InitAlertIdle /\ InitButtonsIdle
    /\ InitOthersIdle

SpecCopy == InitSpecCopy /\ [][NextSpecCopy]_vars

NextSpecLed ==
    /\ NextLed
    /\ during' = DuringAfter
    /\ UNCHANGED <<buttonVars, renderVars, persistVars, mqttVars, pf, fault, boot, drawn, fs,
                   offer>>

InitSpecLed ==
    /\ InitBus /\ InitWorkers /\ InitObs /\ InitButtonsIdle
    /\ InitRenderIdle /\ InitPersistIdle /\ InitMqttIdle /\ InitLed

SpecLed == InitSpecLed /\ [][NextSpecLed]_vars

NextSpecPress == NextPress /\ UNCHANGED <<workerVars, obsVars, alertVars, otherVars>>

InitSpecPress == InitPress /\ InitWorkers /\ InitObs /\ InitAlertIdle /\ InitOthersIdle

SpecPress == InitSpecPress /\ [][NextSpecPress]_vars

NextSpecFaults ==
    /\ NextFaults
    /\ UNCHANGED <<alertVars, buttonVars, renderVars, persistVars, lifeVars, mqttVars>>

InitSpecFaults ==
    /\ InitBus /\ InitWorkers /\ InitObs /\ InitAlertIdle /\ InitButtonsIdle
    /\ InitRenderIdle /\ InitPersistIdle /\ InitLifeIdle /\ InitMqttIdle /\ InitFaults

SpecFaults == InitSpecFaults /\ [][NextSpecFaults]_vars

NextSpecStart ==
    /\ NextStart
    /\ UNCHANGED <<workerVars, obsVars, alertVars, renderVars, persistVars, lifeVars, mqttVars>>
    /\ UNCHANGED <<got, led_idle, led_loc, led_obs, pf, fault, lateVars>>

InitSpecStart ==
    /\ InitStart /\ InitWorkers /\ InitObs /\ InitAlertIdle
    /\ InitRenderIdle /\ InitPersistIdle /\ InitLifeIdle /\ InitMqttIdle
    /\ got = NoGot /\ led_idle = NoLed /\ led_loc = NoLoc /\ led_obs = NoIteration
    /\ pf = NoPrefetch /\ fault = NoFault /\ InitLateIdle

SpecStart == InitSpecStart /\ [][NextSpecStart]_vars

NextSpecFrame ==
    /\ NextFrame
    /\ UNCHANGED <<workerVars, alertVars, buttonVars, persistVars, lifeVars, mqttVars>>
    /\ UNCHANGED <<got, led_idle, led_loc, led_obs, pf, fault, boot, during, fs, offer>>

InitSpecFrame ==
    /\ InitBus /\ InitWorkers /\ InitObs /\ InitAlertIdle /\ InitButtonsIdle
    /\ InitRender /\ InitPersistIdle /\ InitLifeIdle /\ InitMqttIdle /\ InitExtraIdle

SpecFrame == InitSpecFrame /\ [][NextSpecFrame]_vars

\* ------------------------------------------------------------------ claims on the bus

InsideBus == {w \in Workers : pc[w] # "idle"}

\* mutator calls that have stored the version and not yet returned
Bumped == {w \in Workers : pc[w] = "exit" /\ op[w].name \in Mutators}

VersionCountsCalls == version = completed + Cardinality(Bumped)

GetVersionStable == lastRet.name = "get_version" => lastRet.val.v = completed

VersionStep ==
    \/ version' = version
    \/ /\ version' = version + 1
       /\ \E w \in Workers :
            /\ op[w].name \in Mutators
            /\ pc[w] = "store"
            /\ pc'[w] = "exit"

\* C1: under any interleaving, the version equals the number of mutator calls
\* that have stored it (each completed call counts exactly once), a step
\* changes it only by +1 and only inside a mutator, and get_version() returns
\* the number of completed mutator calls, so two calls with no mutation
\* between them return the same number.
C1_VersionCountsMutations ==
    /\ [](VersionCountsCalls /\ GetVersionStable)
    /\ [][VersionStep]_vars

C1_Witness ==
    /\ lastRet.name = "get_version"
    /\ lastRet.val.v = 2
    /\ started = 2
    /\ completed = 2

NavStep ==
    \A w \in Workers :
        (pc[w] = "body" /\ pc'[w] = "load") =>
            /\ op[w].name = "next_screen" =>
                current_screen' = IF current_screen = screen_count - 1 THEN 0
                                  ELSE current_screen + 1
            /\ op[w].name = "prev_screen" =>
                current_screen' = IF current_screen = 0 THEN screen_count - 1
                                  ELSE current_screen - 1
            /\ op[w].name \notin {"next_screen", "prev_screen"} =>
                current_screen' = current_screen

\* C2: for every screen_count >= 1 the screen index stays in [0, screen_count),
\* next_screen moves it one up and prev_screen one down, both wrapping, nothing
\* else moves it, and a next_screen followed by a prev_screen restores it.
C2_IndexInRangeAndWraps ==
    /\ [](/\ current_screen \in 0..(screen_count - 1)
          /\ (lastNav.name = "prev_screen" /\ lastNav.before = "next_screen")
                => lastNav.to = lastNav.start)
    /\ [][NavStep /\ (current_screen' # current_screen =>
                        \E w \in Workers : pc[w] = "body" /\ pc'[w] = "load")]_vars

C2_Witness ==
    /\ screen_count = 3
    /\ lastNav.name = "prev_screen"
    /\ lastNav.before = "next_screen"
    /\ lastNav.start = 2
    /\ lastNav.from = 0
    /\ lastNav.to = 2

ReadingFields(r) == <<r.co2, r.temperature, r.humidity>>

\* C3: every value get_sensor() returns has its three fields from one single
\* update_sensor call, or all three from the initial empty reading.
C3_ReadingFromOneUpdate ==
    lastRet.name = "get_sensor" =>
        \/ ReadingFields(lastRet.val.v) = <<None, None, None>>
        \/ \E x \in writes :
            ReadingFields(lastRet.val.v) = <<Num(x[1]), Num(x[2]), Num(x[3])>>

C3_Witness ==
    /\ lastRet.name = "get_sensor"
    /\ Cardinality(writes) = 2
    /\ lastRet.val.v.timestamp = 2

\* C4: at most one worker is inside a critical section of the bus, the lock's
\* owner is that worker, and a worker performing I/O does not hold the lock.
C4_MutualExclusionNoIo ==
    /\ Cardinality(InsideBus) <= 1
    /\ \A w \in InsideBus : lock = w
    /\ lastIo.kind # "none" => lastIo.holder # lastIo.w

C4_Witness ==
    /\ lastIo.kind = "display"
    /\ lastIo.holder = "sensor"
    /\ pc["sensor"] = "store"

\* ------------------------------------------------------------------ claims on the alert evaluator

\* the rules that match the bus content
Matching ==
    {i \in 1..Len(alerts) :
        LET value == Resolve(alerts[i].source, sensor, mqtt) IN
        /\ value.t # "none"
        /\ Eval(value, alerts[i].op, alerts[i].threshold).match}

\* C5: active_alert() returns a matching rule of the greatest priority among
\* the matching rules, the first declared among those of that priority, and
\* None exactly when no rule matches, whatever the declaration order.
C5_GreatestPriorityFirstDeclared ==
    alertOut.done =>
        /\ ~alertOut.raised
        /\ (alertOut.idx = 0) <=> (Matching = {})
        /\ alertOut.idx # 0 =>
            /\ alertOut.idx \in Matching
            /\ \A j \in Matching :
                \/ alerts[j].priority < alerts[alertOut.idx].priority
                \/ /\ alerts[j].priority = alerts[alertOut.idx].priority
                   /\ j >= alertOut.idx

C5_Witness ==
    /\ alertOut.done
    /\ Len(alerts) = 2
    /\ alerts[1].priority = 5
    /\ alerts[2].priority = 10
    /\ Matching = {1, 2}
    /\ alertOut.idx = 2

\* C6: a rule whose threshold and current value are of different types (a str
\* and a number) does not match and raises nothing, for every comparator.
C6_TypeMismatchNeverMatches ==
    \A k \in 1..Len(alertOut.scanned) :
        LET e == alertOut.scanned[k] IN
        (e.value.t # "none" /\ e.value.t # alerts[e.i].threshold.t) =>
            (~e.match /\ ~e.raised)

\* a source that has no current value: a field of the reading that is None, no
\* field of a reading at all, a key never received, or an unknown namespace
NoCurrentValue(source) ==
    \/ source.ns \notin {"sensor", "mqtt"}
    \/ /\ source.ns = "sensor"
       /\ \/ source.field \notin SensorFields
          \/ source.field = "co2" /\ sensor.co2 = None
          \/ source.field = "temperature" /\ sensor.temperature = None
          \/ source.field = "humidity" /\ sensor.humidity = None
    \/ /\ source.ns = "mqtt"
       /\ \/ source.field \notin SubIds
          \/ source.field \in SubIds /\ mqtt[source.field] = None

\* C7: a rule whose source has no current value never matches, whatever its
\* comparator and threshold; active_alert() raises nothing and goes on to the
\* next rule in priority order.
C7_NoValueNeverMatches ==
    alertOut.done =>
        /\ ~alertOut.raised
        /\ \A i \in 1..Len(alerts) :
            NoCurrentValue(alerts[i].source) => alertOut.idx # i
        /\ \A k \in 1..Len(alertOut.scanned) :
            NoCurrentValue(alerts[alertOut.scanned[k].i].source) =>
                /\ ~alertOut.scanned[k].match
                /\ k < Len(order) =>
                    /\ Len(alertOut.scanned) > k
                    /\ alertOut.scanned[k + 1].i = order[k + 1]

C7_Witness ==
    /\ alertOut.done
    /\ Len(alerts) = 2
    /\ alerts[order[1]].priority > alerts[order[2]].priority
    /\ alerts[order[1]].op = "!="
    /\ NoCurrentValue(alerts[order[1]].source)
    /\ alertOut.idx = order[2]

\* ------------------------------------------------------------------ claims on the button poller

Polling == ButtonNames[pos]

\* the reading before the one being taken was true and was the first true
\* reading of its run
RunBeganLastPoll(name) ==
    /\ hist[name] # <<>>
    /\ hist[name][Len(hist[name])]
    /\ Len(hist[name]) = 2 => ~hist[name][1]

\* C8: a press of a button is dispatched exactly in the poll that reads true
\* for the second time in a row while the stable reading is false: not for a
\* true reading of a single poll, and not again in the later polls of the run.
C8_OnePressPerRun ==
    [][/\ lastPress'.name \in {"none", Polling}
       /\ (lastPress'.name = Polling) <=>
            /\ prev_state'[Polling]
            /\ RunBeganLastPoll(Polling)
            /\ ~stable_state[Polling]]_vars

C8_Witness ==
    /\ hist["A"] = <<TRUE, TRUE>>
    /\ counts["A"] = 3
    /\ sincePress["A"] = "held"
    /\ sincePress["X"] = "never"
    /\ presses = 1

\* C9: a press is dispatched only in a poll that reads true and turns the
\* stable reading from false to true; the stable reading changes only on the
\* second of two equal readings; a poll that reads false dispatches nothing and
\* leaves bus and sinks alone; and a button is not pressed again before two
\* consecutive false polls have followed its last press.
C9_PressOnlyOnDebouncedRise ==
    [][/\ lastPress'.name = Polling =>
            /\ prev_state'[Polling]
            /\ ~stable_state[Polling]
            /\ stable_state'[Polling]
            /\ sincePress[Polling] # "held"
       /\ stable_state'[Polling] # stable_state[Polling] =>
            /\ hist[Polling] # <<>>
            /\ hist[Polling][Len(hist[Polling])] = prev_state'[Polling]
       /\ ~prev_state'[Polling] =>
            /\ lastPress' = NoPress
            /\ UNCHANGED <<current_screen, brightness, version, backlight, publish_queue>>
      ]_vars

C9_Witness ==
    /\ lastPress.name = "A"
    /\ lastPress.since = "released"

GlobalCalls(calls) ==
    SelectSeq(calls, LAMBDA c : c \in {"next_screen", "prev_screen", "publish"})

HandleCalls(calls) == SelectSeq(calls, LAMBDA c : c = "handle_button")

ConfiguredCalls(name) ==
    CASE buttons[name].action \in {"next_screen", "prev_screen"} -> <<buttons[name].action>>
      [] buttons[name].action = "mqtt_publish" -> <<"publish">>
      [] OTHER -> <<>>

\* C10: for every dispatched press the handler of the screen that is active is
\* called first and once; if it consumes the press no global action runs (the
\* screen index and the publish queue stay); if not, the action the table has
\* for the button runs once: the index moves by one, or one request is queued.
C10_ScreenFirstThenTable ==
    /\ [](lastPress.name # "none" =>
            /\ lastPress.calls[1] = "handle_button"
            /\ Len(HandleCalls(lastPress.calls)) = 1
            /\ lastPress.consumed => GlobalCalls(lastPress.calls) = <<>>
            /\ ~lastPress.consumed =>
                    GlobalCalls(lastPress.calls) = ConfiguredCalls(lastPress.name))
    /\ [][lastPress'.name # "none" =>
            /\ lastPress'.offered = current_screen
            /\ lastPress'.consumed =>
                    UNCHANGED <<current_screen, publish_queue>>
            /\ ~lastPress'.consumed =>
                LET action == buttons[lastPress'.name].action IN
                /\ current_screen' =
                    CASE action = "next_screen" ->
                            IF current_screen = screen_count - 1 THEN 0
                            ELSE current_screen + 1
                      [] action = "prev_screen" ->
                            IF current_screen = 0 THEN screen_count - 1
                            ELSE current_screen - 1
                      [] OTHER -> current_screen
                /\ publish_queue' =
                    IF action = "mqtt_publish"
                    THEN Append(publish_queue, <<buttons[lastPress'.name].topic,
                                                 buttons[lastPress'.name].payload>>)
                    ELSE publish_queue
                /\ UNCHANGED <<brightness, backlight>>
      ]_vars

C10_Witness ==
    /\ lastPress.name = "X"
    /\ lastPress.consumed
    /\ buttons["X"].action = "next_screen"
    /\ screen_count = 3

\* ------------------------------------------------------------------ claims on the render loop

\* the current iteration follows another one and no mutator call completed
\* between the two reads of the version
QuietIteration == iter.n >= 2 /\ ~iter.changed

\* C11: an iteration of the render loop that follows another iteration with no
\* bus mutation in between calls neither render() nor display()
C11_NoRenderWithoutMutation == QuietIteration => (~iter.rendered /\ ~iter.pushed)

\* the same, for an iteration that follows one in which nothing was raised
QuietAfterSuccessRendersNothing ==
    (QuietIteration /\ ~iter.afterRaise) => (~iter.rendered /\ ~iter.pushed)

\* the iteration that read the version after a mutator call has reached its wait
IterationAfterMutationEnded == r_pc = "wait" /\ iter.changed

\* C12 as stated: the iteration that follows a bus mutation renders the active
\* screen and pushes the frame to the display
C12_NextIterationPushes ==
    IterationAfterMutationEnded => (iter.rendered /\ iter.screen = idx /\ iter.pushed)

\* C12: as amended: the iteration that follows a bus mutation calls render() on
\* the active screen, and pushes the frame unless render() or display() raised
C12_NextIterationRenders ==
    IterationAfterMutationEnded =>
        /\ iter.rendered
        /\ iter.screen = idx
        /\ iter.raised \/ (iter.pushed /\ display_frame = image /\ image.screen = idx)

C12_Witness == IterationAfterMutationEnded /\ iter.n >= 2 /\ iter.pushed

\* C13: when render() or display() raises, the loop goes on to its wait, the
\* display keeps the frame it has, and the next iteration renders again, pushing
\* the frame if nothing is raised this time
C13_RaiseKeepsLoopAndFrame ==
    /\ [][(iter'.raised /\ ~iter.raised) =>
            (r_pc' = "wait" /\ display_frame' = display_frame
                /\ last_version' = last_version)]_vars
    /\ []((iter.afterRaise /\ r_pc = "wait") =>
            (iter.rendered /\ (iter.raised \/ (iter.pushed /\ display_frame = image))))

C13_Witness ==
    /\ iter.afterRaise /\ ~iter.changed /\ iter.pushed
    /\ display_frame = Render(idx, version)

\* ------------------------------------------------------------------ claims on the persistence watcher

\* the watcher has finished a poll: it has read a tuple and compared it
PollEnded == w_pc = "test" /\ lastPoll # "none"

\* C14 as stated: the watcher has called save once for every change of the
\* tuple that precedes the tuple it has just polled
C14_OneSavePerChange == PollEnded => w_saves = due

\* C14: as amended: at a poll the watcher calls save exactly once, with the tuple
\* it read, when that tuple differs from the tuple it last saved or started
\* from, and it calls save at no other time
C14_OneSavePerObservedChange ==
    [][/\ (w_pc = "compare" /\ w_pc' # "compare" /\ w_current # w_last) =>
            (w_saves' = w_saves + 1 /\ state_file' = w_current /\ w_last' = w_current)
       /\ (w_saves' # w_saves) =>
            (w_pc = "compare" /\ w_current # w_last /\ w_saves' = w_saves + 1)
       /\ (w_saves' = w_saves) =>
            (state_file' = state_file /\ w_last' \in {w_last, <<w_screen, brightness>>})
      ]_vars

C14_Witness == PollEnded /\ w_saves = 1 /\ lastPoll = "skipped" /\ due = 1

\* ------------------------------------------------------------------ claims on shutdown

LifeWorkers == LifeThreads \ {"main"}

\* C15: run() calls save exactly once, after the button thread, the only one
\* that changes the screen and the brightness, has terminated, and the call
\* carries the screen and the brightness the bus holds from then on
C15_OneFinalSave ==
    /\ final_saves <= 1
    /\ t_pc["main"] = "returned" => final_saves = 1
    /\ final_saves = 1 =>
        /\ t_pc["buttons"] = "done"
        /\ final_saved = <<current_screen, brightness>>

\* the final save carries a change the watcher has not polled
C15_Witness ==
    /\ final_saves = 1
    /\ w_saves = 0
    /\ t_pc["persist"] = "wait"
    /\ final_saved # w_last

\* C16: the animator issues its (0, 0, 0) command once, when it has found the
\* event set, as the last thing it does: it has issued none while it runs,
\* and when it has terminated the last command it gave is that one
C16_OffOnceAtExit ==
    /\ led_offs <= 1
    /\ led_offs = 1 => shutdown
    /\ t_pc["led"] # "done" => led_offs = 0
    /\ t_pc["led"] = "done" =>
        /\ led_offs = 1
        /\ led_sink = Off
        /\ led_last \in {"off", "main"}

C16_Witness == t_pc["led"] = "done" /\ led_last = "off" /\ ~LedForcedOff

\* C17: when run() has returned, every worker it started has terminated
C17_EveryWorkerJoined ==
    t_pc["main"] = "returned" => \A t \in LifeWorkers : t_pc[t] = "done"

\* C18: once the main thread has forced the LED and the backlight off, no
\* worker drives the LED, the backlight or the display: the last LED command
\* stays (0, 0, 0) and the last backlight command stays 0.0
C18_SinksStayOff ==
    /\ late_cmds = 0
    /\ LedForcedOff => (led_sink = Off /\ led_last = "main")
    /\ BacklightForcedOff => backlight = 0

\* run() has returned after the three workers that drive a sink have driven it
C18_Witness ==
    /\ t_pc["main"] = "returned"
    /\ display_frame # NoFrame
    /\ led_offs = 1
    /\ brightness = 1000 - STEP

\* C19: the event stays set once it is set, no timed wait runs to its timeout
\* while it is set, and after it is set every worker loop ends and run()
\* returns
C19_ShutdownEndsEveryLoop ==
    /\ [][shutdown => shutdown']_vars
    /\ [](full_sleeps = 0)
    /\ shutdown ~> (t_pc["main"] = "returned" /\ \A t \in LifeWorkers : t_pc[t] = "done")

\* everything has ended, the sensor having been told to stop inside a wait of
\* its initialisation loop
C19_Witness ==
    /\ shutdown
    /\ t_pc["main"] = "returned"
    /\ \A t \in LifeWorkers : t_pc[t] = "done"
    /\ attempt >= 1
    /\ sensor = EmptyReading

\* ------------------------------------------------------------------ claims on the messaging client

\* the callback that ended last drains the queue: a successful connect or an
\* inbound message
DrainingEventEnded == ev.handled /\ ev.kind \in {"connect", "message"}

\* every request of the sequence has been handed to the client and is not in
\* the queue
HandedOver(before) ==
    \A k \in 1..Len(before) : InSeq(before[k], sent) /\ ~InSeq(before[k], publish_queue)

\* C20: after a successful connect or an inbound message has been handled,
\* every publish request that was in the queue when the callback started has
\* been handed to the messaging client and is no longer in the queue
C20_DrainedAfterEvent == DrainingEventEnded => HandedOver(ev.before)

\* the same for the callbacks that reach the drain: a successful connect and a
\* message on a topic that has a subscription
DrainedAfterKnownEvent ==
    (DrainingEventEnded /\ (ev.kind = "message" => SubsByTopic(ev.topic) # NoSub))
        => HandedOver(ev.before)

\* ------------------------------------------------------------------ claims on the stored values

\* the values with two decimals
TwoDecimals == {r \in -1000..5000 : r % 10 = 0}

\* r is v rounded to two decimals: the value with two decimals nearest to v
IsRounded(r, v) == r \in TwoDecimals /\ 2 * r - 10 < 2 * v /\ 2 * v < 2 * r + 10

\* c is r brought into [0.05, 1.0]
IsClamped(c, r) ==
    /\ r < 50 => c = 50
    /\ r > 1000 => c = 1000
    /\ (50 <= r /\ r <= 1000) => c = r

BrightnessInRange == 50 <= brightness /\ brightness <= 1000

StoresRoundedClamped ==
    lastRet.name = "set_brightness" =>
        \E r \in TwoDecimals : IsRounded(r, lastRet.val.n) /\ IsClamped(brightness, r)

SetExamples ==
    lastRet.name = "set_brightness" =>
        /\ lastRet.val.n = -1000 => brightness = 50
        /\ lastRet.val.n = 5000 => brightness = 1000
        /\ lastRet.val.n = 333 => brightness = 330

\* C21: after set_brightness(v) the bus holds v rounded to two decimals and
\* clamped to [0.05, 1.0] (-1 gives 0.05, 5 gives 1.0, 0.333 gives 0.33), and
\* the brightness lies in [0.05, 1.0] in every state, the constructed one
\* included, whatever initial brightness the constructor was given.
C21_BrightnessRoundedClamped ==
    BrightnessInRange /\ StoresRoundedClamped /\ SetExamples

\* set_brightness(-1) as the first call on the constructed bus
C21_Witness ==
    /\ started = 1
    /\ lastRet.name = "set_brightness"
    /\ lastRet.val = Num(-1000)
    /\ brightness = 50

\* a step in which the caller modifies the value it holds leaves the bus as it was
ModifyKeepsBus == got'.last = "modify" => UNCHANGED busVars

\* a step that is a mutation of the bus leaves the value the caller holds as it was
MutationKeepsGot == version' # version => got'.val = got.val

\* C22: a value returned by get_sensor(), get_mqtt() or get_all_mqtt() is a
\* copy of its own: no later bus mutation changes it, and a caller that
\* modifies it does not change what the bus holds.
C22_GettersReturnCopies == [][ModifyKeepsBus /\ MutationKeepsGot]_vars

\* the same for the values get_mqtt and get_all_mqtt returned, and for a
\* reading the bus has replaced since
CopiesExceptLiveReading ==
    [][(got.kind # "get_sensor" \/ ~got.same) => (ModifyKeepsBus /\ MutationKeepsGot)]_vars

\* ------------------------------------------------------------------ claims on the LED animator

\* the animator has run the body of an iteration and is in its wait
IterationDone == t_pc["led"] = "wait"

Animated(led) == led.mode \in {"blink", "pulse"}

\* the resolved colour is not the colour of the iteration before, which was solid
ColourChanged == led_obs.prev.color # led_obs.used.color

\* C23: in an iteration that resolves to solid mode the animator issues a drive
\* command exactly when the resolved colour differs from the colour of the
\* previous solid iteration (or there is none) or the previous iteration was
\* blink or pulse; consecutive solid iterations of one colour issue no command.
C23_SolidDrivesOnChange ==
    (IterationDone /\ ~Animated(led_obs.used)) =>
        (led_obs.cmd <=> (Animated(led_obs.prev) \/ ColourChanged))

\* a second solid iteration of the same colour, resolved from another rule
\* than the first, has issued no command
C23_Witness ==
    /\ IterationDone
    /\ led_obs.used.mode = "solid"
    /\ led_obs.prev.mode = "solid"
    /\ led_obs.prev.color = led_obs.used.color
    /\ led_obs.idx = 1
    /\ ~led_obs.cmd
    /\ led_sink = led_obs.used.color

\* the configuration the animator is to use for the rule at declared position
\* k, or for no rule when k is 0
Resolved(k) == IF k = 0 THEN led_idle ELSE LedRules[k].led

\* the command of a blink or pulse iteration is the colour of its
\* configuration multiplied by a factor, the command of a solid one the colour
DrivenFrom(led) ==
    IF Animated(led) THEN \E f \in Factors(led.mode) : led_sink = Scale(led.color, f)
    ELSE led_sink = led.color

\* C24: the drive decision of an iteration uses the result of an
\* active_alert() call made in that iteration: color, mode and rate are those
\* of the rule it returned, or of the idle configuration when it returned
\* None; the wait that follows is the fast tick after blink or pulse and the
\* slow tick after solid, so the next evaluation is one tick away.
C24_DecisionFromSameIteration ==
    IterationDone =>
        /\ led_obs.evaluated
        /\ led_obs.used = Resolved(led_obs.idx)
        /\ led_obs.cmd => DrivenFrom(Resolved(led_obs.idx))
        /\ led_obs.tick = (IF Animated(led_obs.used) THEN TICK ELSE TICK_SOLID)

\* the blinking rule has become active after a solid iteration and the
\* iteration that follows drives the LED from it
C24_Witness ==
    /\ IterationDone
    /\ led_obs.prev.mode = "solid"
    /\ led_obs.idx = 2
    /\ led_obs.used.mode = "blink"
    /\ led_obs.cmd
    /\ led_obs.tick = TICK

\* ------------------------------------------------------------------ claims on a press

\* the step is a call of _on_press
IsPress == presses' = presses + 1

\* the actions _dispatch knows
KnownActions == {"next_screen", "prev_screen", "mqtt_publish"}

\* the static table has no entry for the button, or one that names no action
\* _dispatch knows
NoGlobalAction(name) ==
    buttons[name] = NoConfig \/ buttons[name].action \notin KnownActions

\* C25: a press of a button that has no entry in the static table, or an
\* entry with an unknown action, and that the active screen does not consume,
\* leaves the screen index, the brightness and the version as they were and
\* enqueues no publish.
C25_UnconfiguredPressChangesNothing ==
    [][(IsPress /\ ~lastPress'.consumed /\ NoGlobalAction(lastPress'.name))
        => UNCHANGED <<current_screen, brightness, version, publish_queue>>]_vars

\* B, configured with an action _dispatch does not know, was pressed on one of
\* several screens and fell through to the table
C25_Witness ==
    /\ lastPress.name = "B"
    /\ ~lastPress.consumed
    /\ buttons["B"] = ButtonConfig("reboot")
    /\ Len(screens) > 1
    /\ presses = 2

\* the calls of _dispatch for a table entry
TableCalls(cfg) ==
    IF cfg = NoConfig THEN <<>>
    ELSE CASE cfg.action = "next_screen" -> <<"next_screen">>
           [] cfg.action = "prev_screen" -> <<"prev_screen">>
           [] cfg.action = "mqtt_publish" -> <<"publish">>
           [] OTHER -> <<>>

\* the press was offered to the brightness screen
OnBrightnessScreen == screens[lastPress'.offered + 1] = "brightness"

ConsumedByScreen ==
    /\ lastPress'.consumed
    /\ lastPress'.calls = <<"handle_button", "set_brightness", "set_backlight">>
    /\ UNCHANGED <<current_screen, publish_queue>>

ReachesTable ==
    /\ ~lastPress'.consumed
    /\ lastPress'.calls = <<"handle_button">> \o TableCalls(buttons[lastPress'.name])

\* C30: while the brightness screen is active every press of X or Y is
\* consumed by it, at the limits of the brightness too, and the global action
\* of X or Y does not run; a press of A or B is never consumed by it and goes
\* to the global table.
C30_BrightnessScreenConsumesXY ==
    [][(IsPress /\ OnBrightnessScreen) =>
        /\ lastPress'.name \in {"X", "Y"} => ConsumedByScreen
        /\ lastPress'.name \in {"A", "B"} => ReachesTable]_vars

\* Y, which the table maps to next_screen, was pressed with the brightness at
\* its upper limit and the screen consumed it
C30_Witness ==
    /\ lastPress.name = "Y"
    /\ lastPress.consumed
    /\ screens[lastPress.offered + 1] = "brightness"
    /\ brightness = 1000
    /\ buttons["Y"] = ButtonConfig("next_screen")
    /\ Len(screens) > 1
    /\ current_screen = lastPress.offered

\* ------------------------------------------------------------------ claims on the publish queue

\* the requests of the publish() calls so far, in the order of the calls
Requests == [k \in 1..published |-> <<"cmd/light", ToString(k)>>]

\* the request get_nowait returned and client.publish has not yet been given
InHand == IF n_pc = "publish" THEN <<held>> ELSE <<>>

\* what has been handed over, what is in hand and what is queued are, in this
\* order, the requests made: none is missing, none is there twice
NoneLostNoneTwice == sent \o InHand \o publish_queue = Requests

\* a request leaves the queue only in a drain
LeavesInDrain == Len(publish_queue') < Len(publish_queue) => n_pc = "drain"

\* C26: every request enqueued by publish() is handed to the messaging client
\* once and in the order of enqueueing, however publish() calls interleave
\* with drains; until a drain takes it a request stays in the queue, while
\* disconnected too, neither dropped nor duplicated.
C26_HandedOverOnceInOrder == []NoneLostNoneTwice /\ [][LeavesInDrain]_vars

\* a request made while disconnected waited for the connect; a second one was
\* made while the drain ran, and both have been handed over in order
C26_Witness ==
    /\ ev.kind = "connect"
    /\ Len(ev.before) = 1
    /\ ev.handled
    /\ published = 2
    /\ Len(sent) = 2
    /\ sent = Requests

\* ------------------------------------------------------------------ claims on failures

\* the step is one in which a worker's read, message or prefetch failed
FailedStep == fault' # fault /\ fault'.exc # ""

\* the bus is as it was and the exception went no further than the worker's
\* handler, so the loop or callback goes on to the next event
Contained == UNCHANGED <<sensor, mqtt, version>> /\ ~fault'.propagated

\* C27: a failed sensor read, an inbound message whose payload cannot be
\* extracted and a failed prefetch each leave the sensor reading, the
\* messaging values and the version as they were and do not stop the worker,
\* which goes on with the next event.
C27_FailuresContained == [][FailedStep => Contained]_vars

\* the same for the failures of the sensor and of the message callback, and
\* for the failures of prefetch that its except clauses name
ContainedWhereCaught ==
    [][(FailedStep /\ (fault'.who # "prefetch" \/ Handles(PrefetchCatches, fault'.exc)))
        => Contained]_vars

\* a failure never changes the bus
FailureKeepsBus == [][FailedStep => UNCHANGED <<sensor, mqtt, version>>]_vars

\* ------------------------------------------------------------------ claims on the fields of the bus

\* worker w executes the body of the mutator it is in
InBody(w) == pc[w] = "body" /\ pc'[w] = "load" /\ op[w].name \in Mutators

\* what the body of mutator call c leaves as it was
Frame(c) ==
    CASE c.name = "update_mqtt" ->
            /\ \A k \in SubIds \ {c.sub_id} : mqtt'[k] = mqtt[k]
            /\ UNCHANGED <<sensor, current_screen, brightness>>
      [] c.name = "update_sensor" -> UNCHANGED <<mqtt, current_screen, brightness>>
      [] c.name = "set_brightness" -> UNCHANGED <<sensor, mqtt, current_screen>>
      [] OTHER -> UNCHANGED <<sensor, mqtt, brightness>>

\* a field of the bus changes only in the body of a mutator, the version only
\* in its `+= 1`
OnlyMutatorsWrite ==
    /\ <<sensor, mqtt, current_screen, brightness>>' # <<sensor, mqtt, current_screen, brightness>>
        => \E w \in Workers : InBody(w)
    /\ version' # version => \E w \in Workers : pc[w] = "store" /\ op[w].name \in Mutators

\* C28: a mutator changes its own field and the version and nothing else:
\* update_mqtt(k, v) leaves the other keys, the reading, the screen index and
\* the brightness; update_sensor leaves the messaging values, the screen index
\* and the brightness; next_screen, prev_screen and set_brightness leave the
\* reading and the messaging values; screen_count never changes.
C28_MutatorsKeepOtherFields ==
    [][/\ \A w \in Workers : InBody(w) => Frame(op[w])
       /\ OnlyMutatorsWrite
       /\ screen_count' = screen_count]_vars

\* update_mqtt has stored a key while the other key held a value, which is
\* still there
C28_Witness ==
    /\ \E w \in Workers : pc[w] = "load" /\ op[w].name = "update_mqtt"
                            /\ op[w].sub_id = "temp"
    /\ mqtt["temp"] = Num(21)
    /\ mqtt["door"] = Str("ON")
    /\ version = completed

\* ------------------------------------------------------------------ claims on startup

\* the configured entries a screen is built from
ValidEntries == {k \in 1..Len(boot.config) : boot.config[k] \in BuiltTypes}

FatalWithoutScreens ==
    /\ boot.pc = "fatal" => ValidEntries = {}
    /\ boot.pc = "running" => ValidEntries # {}

\* the index the render loop and _on_press use is an index of their list
IndexValid ==
    boot.pc = "running" =>
        /\ screen_count = Cardinality(ValidEntries)
        /\ screen_count = Len(screens)
        /\ screen_count >= 1
        /\ current_screen \in 0..(Len(screens) - 1)

\* C29: startup ends in a fatal error when no valid screen is built; otherwise
\* the bus is constructed with screen_count equal to the number of built
\* screens, at least 1, and in every state the current screen index is a valid
\* index into the screen list of the render loop and the button dispatcher.
C29_ScreenIndexValid == FatalWithoutScreens /\ IndexValid

\* an entry of an unknown type was skipped, the saved index was beyond the
\* built list, and a press of A has wrapped the index to the first screen
C29_Witness ==
    /\ boot.pc = "running"
    /\ Len(screens) = 2
    /\ Len(boot.config) = 3
    /\ boot.saved = 3
    /\ lastPress.name = "A"
    /\ lastPress.offered = 1
    /\ current_screen = 0

\* a configuration of unknown types only ends the construction
FatalReached == boot.pc = "fatal" /\ Len(boot.config) = 2

\* ------------------------------------------------------------------ claims on the frames

\* the iteration found the version unchanged and renders nothing
Skipped == r_pc = "wait" /\ iter.n >= 1 /\ ~iter.rendered

\* C31: the version the render loop records is read before the screen index
\* and before the data the frame is drawn from, so when the loop finds the
\* version unchanged and skips, the frame on the display was drawn from a
\* screen index and from bus content at least as new as that version,
\* however the mutators interleave with the render.
C31_SkippedFrameIsCurrent ==
    Skipped =>
        /\ display_frame # NoFrame
        /\ display_frame.state >= seen_version
        /\ drawn.pushed_at >= seen_version
        /\ last_version = seen_version

\* the loop skips after two mutations and shows a frame drawn from the screen
\* index and the content of the current version
C31_Witness ==
    /\ Skipped
    /\ started = 2
    /\ seen_version = version
    /\ display_frame.state = version
    /\ drawn.pushed_at = version

\* ------------------------------------------------------------------ claims on the snapshot

\* active_alert has returned and its result has not been used yet
AlertReturned == t_pc["led"] = "drive"

\* the result is the one of the scan on content p
ResultOn(p) == ActiveAlert(order, alerts, p[1], p[2]).idx = led_loc.alert

\* C32: a call of active_alert() returns the result for a (sensor reading,
\* messaging values) pair that was the content of the bus at one instant
\* during the call, also when update_sensor and update_mqtt run during it.
C32_ResultOfOneInstant == AlertReturned => \E p \in during : ResultOn(p)

\* the same when at most one mutation completed during the call
OneInstantIfOneMutation ==
    (AlertReturned /\ Cardinality(during) <= 2) => \E p \in during : ResultOn(p)

\* ------------------------------------------------------------------ persistence.save, statement by statement

MaxSaveChanges == 2

\* the arguments of the caller's save: `current` of the watcher, the values
\* run() read for its final save
SaveArg(w) == IF w = "persist" THEN w_current ELSE final_saved

\* App.run has started the threads; the button thread and the watcher run,
\* the main thread waits for the signal; there is no state file yet
InitSave ==
    /\ InitBus
    /\ screen_count > 1
    /\ InitWorkers /\ InitObs /\ InitAlertIdle /\ InitButtonsIdle
    /\ InitRenderIdle /\ InitPersistIdle /\ InitMqttIdle /\ InitExtraIdle
    /\ t_pc = [t \in LifeThreads |->
                CASE t = "main" -> "wait_signal"
                  [] t = "persist" -> "init"
                  [] t = "buttons" -> "test"
                  [] OTHER -> "off"]
    /\ led_cfgs = {}
    /\ attempt = 0
    /\ last_solid_rgb = NoRgb
    /\ led_sink = NoRgb
    /\ led_last = "none"
    /\ led_offs = 0
    /\ late_cmds = 0
    /\ full_sleeps = 0
    /\ m_screen = -1
    /\ final_saved = NoTuple
    /\ final_saves = 0

\* what a step of one caller leaves alone
saveFiles == <<fs, state_file>>
saveWatcher == <<w_current, w_last, w_saves>>
saveMain == <<final_saved, final_saves>>
saveBus == <<current_screen, version, started>>

\* the button thread dispatches a press bound to next_screen (state.py 44-48)
SavePress ==
    /\ t_pc["buttons"] = "test"
    /\ started < MaxSaveChanges
    /\ current_screen' = NextIndex(current_screen, screen_count)
    /\ version' = version + 1
    /\ started' = started + 1
    /\ UNCHANGED <<t_pc, shutdown, saveFiles, saveWatcher, saveMain>>

\* buttons.py 68: the poll loop finds the event set and the thread ends
SaveButtonsExit ==
    /\ t_pc["buttons"] = "test"
    /\ shutdown
    /\ Goto("buttons", "done")
    /\ UNCHANGED <<shutdown, saveFiles, saveWatcher, saveMain, saveBus>>

\* app.py 136-138
SaveSignal ==
    /\ HandleSignal
    /\ UNCHANGED <<t_pc, saveFiles, saveWatcher, saveMain, saveBus>>

\* app.py 107-113: `self._shutdown.wait()` returns and the joins return; the
\* button thread is the one that changes what is saved
SaveMainJoin ==
    /\ \/ t_pc["main"] = "wait_signal" /\ shutdown /\ Goto("main", "join_buttons")
       \/ t_pc["main"] = "join_buttons" /\ ButtonsJoined(t_pc["buttons"])
            /\ Goto("main", "save")
    /\ UNCHANGED <<shutdown, saveFiles, saveWatcher, saveMain, saveBus>>

\* app.py 119-123: the arguments of the final save are read and save is entered
SaveMainCall ==
    /\ t_pc["main"] = "save"
    /\ final_saved' = <<current_screen, brightness>>
    /\ final_saves' = final_saves + 1
    /\ Goto("main", "save_open")
    /\ UNCHANGED <<shutdown, saveFiles, saveWatcher, saveBus>>

\* app.py 128-129: `last = (...)` and the first test of the loop
SaveWatcherInit ==
    /\ t_pc["persist"] = "init"
    /\ w_last' = <<current_screen, brightness>>
    /\ Goto("persist", IF shutdown THEN "done" ELSE "wait")
    /\ UNCHANGED <<shutdown, saveFiles, w_current, w_saves, saveMain, saveBus>>

\* app.py 130-132: the wait returns, `current = (...)` and the comparison;
\* save is entered, or the loop tests the event
SaveWatcherPoll ==
    /\ t_pc["persist"] = "wait"
    /\ LET current == <<current_screen, brightness>> IN
        IF ShouldSave(current, w_last)
        THEN Goto("persist", "save_open") /\ w_current' = current
        ELSE Goto("persist", IF shutdown THEN "done" ELSE "wait")
             /\ UNCHANGED w_current
    /\ UNCHANGED <<shutdown, saveFiles, w_last, w_saves, saveMain, saveBus>>

\* a statement of a save of the watcher runs when run() has entered its save
Late(w) == fs.late \/ (w = "persist" /\ final_saves > 0)

\* persistence.py 26, 28: `open(path + ".tmp", "w")` creates the temporary
\* file or truncates the one there is; the caller holds it open
SaveOpen(w) ==
    /\ t_pc[w] = "save_open"
    /\ fs' = [fs EXCEPT !.tmp = Truncated, !.at[w] = "tmp", !.late = Late(w)]
    /\ Goto(w, "save_dump")
    /\ UNCHANGED <<shutdown, state_file, saveWatcher, saveMain, saveBus>>

\* persistence.py 29-32: json.dump writes into the file the caller has open,
\* whatever name that file has by now, and the with block closes it
SaveDump(w) ==
    /\ t_pc[w] = "save_dump"
    /\ fs' = [fs EXCEPT !.tmp = IF fs.at[w] = "tmp" THEN SaveArg(w) ELSE @,
                        !.at[w] = "none", !.late = Late(w)]
    /\ state_file' = IF fs.at[w] = "path" THEN SaveArg(w) ELSE state_file
    /\ Goto(w, "save_replace")
    /\ UNCHANGED <<shutdown, saveWatcher, saveMain, saveBus>>

\* what `os.replace(tmp, path)` makes of an open file: the temporary file
\* becomes the state file, the state file there was has no name any more
Renamed(at) ==
    CASE at = "tmp" -> "path"
      [] at = "path" -> "gone"
      [] OTHER -> at

\* persistence.py 33-35: `os.replace(tmp, path)`; with no temporary file it
\* raises FileNotFoundError, which save logs
Replace(w) ==
    IF fs.tmp = Absent
    THEN /\ state_file' = state_file
         /\ fs' = [fs EXCEPT !.late = Late(w)]
    ELSE /\ state_file' = fs.tmp
         /\ fs' = [fs EXCEPT !.tmp = Absent, !.late = Late(w),
                             !.at = [o \in Savers |-> Renamed(fs.at[o])]]

\* save returns to run(), which returns
SaveMainReplace ==
    /\ t_pc["main"] = "save_replace"
    /\ Replace("main")
    /\ Goto("main", "returned")
    /\ UNCHANGED <<shutdown, saveWatcher, saveMain, saveBus>>

\* save returns to the watcher: `last = current` and the test of the loop
SaveWatcherReplace ==
    /\ t_pc["persist"] = "save_replace"
    /\ Replace("persist")
    /\ w_last' = w_current
    /\ w_saves' = w_saves + 1
    /\ Goto("persist", IF shutdown THEN "done" ELSE "wait")
    /\ UNCHANGED <<shutdown, w_current, saveMain, saveBus>>

NextSave ==
    \/ SavePress
    \/ SaveButtonsExit
    \/ SaveSignal
    \/ SaveMainJoin
    \/ SaveMainCall
    \/ SaveWatcherInit
    \/ SaveWatcherPoll
    \/ \E w \in Savers : SaveOpen(w)
    \/ \E w \in Savers : SaveDump(w)
    \/ SaveMainReplace
    \/ SaveWatcherReplace

NextSpecSave ==
    /\ NextSave
    /\ UNCHANGED <<lock, sensor, mqtt, screen_count, brightness>>
    /\ UNCHANGED <<workerVars, alertVars, buttonVars, mqttVars>>
    /\ UNCHANGED <<completed, writes, lastRet, lastIo, lastNav>>
    /\ UNCHANGED <<renderRest, seen_version, last_version, display_frame, watcherRest>>
    /\ UNCHANGED <<led_cfgs, attempt, last_solid_rgb, led_sink, m_screen, led_last,
                   led_offs, late_cmds, full_sleeps>>
    /\ UNCHANGED <<got, led_idle, led_loc, led_obs, pf, fault, boot, drawn, during, offer>>

InitSpecSave == InitSave

SpecSave == InitSpecSave /\ [][NextSpecSave]_vars

\* ------------------------------------------------------------------ claims on the state file

\* the caller is between open() and the end of the with block
Writing(w) == t_pc[w] = "save_dump"

\* C33: after a clean shutdown the state file holds the final (screen,
\* brightness) of the bus: no save of the watcher with an older tuple replaces
\* the file after the final save of run(), and the two saves never have the
\* shared temporary file open for writing at the same time.
C33_FileHoldsFinalState ==
    /\ t_pc["main"] = "returned" => state_file = <<current_screen, brightness>>
    /\ ~(Writing("persist") /\ Writing("main"))

\* the final save is called with the final state
FinalSaveArguments == final_saves > 0 => final_saved = <<current_screen, brightness>>

\* the file holds the final state when no statement of a save of the watcher
\* ran after run() entered its final save
FinalStateWithoutLateWatcher ==
    (t_pc["main"] = "returned" /\ ~fs.late) => state_file = <<current_screen, brightness>>

\* ------------------------------------------------------------------ a press among the other workers

MaxOffers == 2
MaxWorkerCalls == 2

\* the threads that run beside the button thread once run() has started them
OtherWorkers == {"sensor", "mqtt", "render", "led", "persist"}

\* mutant: every worker calls the mutators of the screen and the brightness
WorkerCallsAny(t) == {"update_sensor", "update_mqtt", "next_screen", "set_brightness"}

\* the mutators a worker calls: scd30.py 91, mqtt_client.py 77; the renderer,
\* the LED animator and the persistence watcher call getters only
WorkerCalls(t) ==
    CASE t = "sensor" -> {"update_sensor"}
      [] t = "mqtt" -> {"update_mqtt"}
      [] OTHER -> {}

OfferScreens == {<<"brightness", "sensor">>, <<"sensor", "brightness">>}
OfferBrightness == {50, 500, 1000}

\* run() has started the workers: two screens, A and B bound to the screen
\* changes, Y to a publish, X to nothing
InitOffer ==
    /\ lock = NoOwner
    /\ sensor = EmptyReading
    /\ mqtt = [k \in SubIds |-> None]
    /\ screens \in OfferScreens
    /\ screen_count = Len(screens)
    /\ current_screen \in 0..(screen_count - 1)
    /\ version = 0
    /\ brightness \in OfferBrightness
    /\ backlight = brightness
    /\ buttons = [b \in PinNames |->
                    CASE b = "A" -> ButtonConfig("next_screen")
                      [] b = "B" -> ButtonConfig("prev_screen")
                      [] b = "Y" -> ButtonConfig("mqtt_publish")
                      [] OTHER -> NoConfig]
    /\ prev_state = [b \in Polled |-> FALSE]
    /\ stable_state = [b \in Polled |-> FALSE]
    /\ counts = [b \in Polled |-> 0]
    /\ pos = 1
    /\ publish_queue = <<>>
    /\ hist = [b \in Polled |-> <<>>]
    /\ sincePress = [b \in Polled |-> "never"]
    /\ presses = 0
    /\ lastPress = NoPress
    /\ InitWorkers /\ InitObs /\ InitAlertIdle /\ InitOthersIdle

\* one whole mutator call of a worker other than the button thread
WorkerCall(t, m) ==
    /\ started < MaxWorkerCalls
    /\ started' = started + 1
    /\ version' = BumpVersion(version)
    /\ sensor' = IF m = "update_sensor" THEN NewReading(sensor, 1500, 25, 60) ELSE sensor
    /\ mqtt' = IF m = "update_mqtt" THEN [mqtt EXCEPT !["door"] = Str("ON")] ELSE mqtt
    /\ current_screen' = IF m = "next_screen" THEN NextIndex(current_screen, screen_count)
                         ELSE current_screen
    /\ brightness' = IF m = "set_brightness" THEN Clamp(Round2(500)) ELSE brightness
    /\ UNCHANGED <<backlight, publish_queue, offer>>

\* buttons.py 93: `screen = self._screens[self._state.get_current_screen()]`
OfferBegin(name) ==
    /\ offer.at = "idle"
    /\ offer.n < MaxOffers
    /\ offer' = [at |-> "handle", name |-> name, screen |-> current_screen, b |-> -1,
                 v |-> version, n |-> offer.n + 1]
    /\ UNCHANGED <<sensor, mqtt, current_screen, brightness, version, backlight,
                   publish_queue, started>>

\* the screen's handle_button would consume the press
Consumes(type, name) == HandleButton(type, name, PressState).consumed

\* buttons.py 94 with brightness_screen.py 26, 31 up to `state.get_brightness()`,
\* or with the default handle_button and buttons.py 98-101
OfferHandle ==
    /\ offer.at = "handle"
    /\ LET type == screens[offer.screen + 1]
           cfg == buttons[offer.name]
       IN  offer' = IF Consumes(type, offer.name)
                    THEN [offer EXCEPT !.at = "set", !.b = brightness]
                    ELSE IF cfg = NoConfig THEN [offer EXCEPT !.at = "idle"]
                    ELSE [offer EXCEPT !.at = "dispatch"]
    /\ UNCHANGED <<sensor, mqtt, current_screen, brightness, version, backlight,
                   publish_queue, started>>

\* brightness_screen.py 26-29, 31-34 from the value get_brightness returned:
\* set_brightness(new), set_backlight(new), return True
OfferSet ==
    /\ offer.at = "set"
    /\ LET st == HandleButton(screens[offer.screen + 1], offer.name,
                              [PressState EXCEPT !.brightness = offer.b]).st
       IN  /\ brightness' = st.brightness
           /\ version' = st.version
           /\ backlight' = st.backlight
    /\ offer' = [offer EXCEPT !.at = "idle"]
    /\ UNCHANGED <<sensor, mqtt, current_screen, publish_queue, started>>

\* buttons.py 102, 104-115
OfferDispatch ==
    /\ offer.at = "dispatch"
    /\ LET st == Dispatch(buttons[offer.name], PressState) IN
        /\ current_screen' = st.current_screen
        /\ version' = st.version
        /\ publish_queue' = st.publish_queue
    /\ offer' = [offer EXCEPT !.at = "idle"]
    /\ UNCHANGED <<sensor, mqtt, brightness, backlight, started>>

NextOffer ==
    \/ \E name \in PinNames : OfferBegin(name)
    \/ OfferHandle
    \/ OfferSet
    \/ OfferDispatch
    \/ \E t \in OtherWorkers : \E m \in WorkerCalls(t) : WorkerCall(t, m)

NextSpecOffer ==
    /\ NextOffer
    /\ UNCHANGED <<lock, screen_count, workerVars, alertVars>>
    /\ UNCHANGED <<completed, writes, lastRet, lastIo, lastNav>>
    /\ UNCHANGED <<prev_state, stable_state, counts, pos, screens, buttons, hist, sincePress,
                   presses, lastPress>>
    /\ UNCHANGED <<renderVars, persistVars, lifeVars, mqttVars>>
    /\ UNCHANGED <<got, led_idle, led_loc, led_obs, pf, fault, boot, drawn, during, fs>>

InitSpecOffer == InitOffer

SpecOffer == InitSpecOffer /\ [][NextSpecOffer]_vars

\* ------------------------------------------------------------------ claims on the button thread as only writer

\* a step of the button thread that ends a press
ButtonThreadWrites == offer.at \in {"set", "dispatch"} /\ offer'.at = "idle"

\* the screen index and the brightness change in steps of the button thread only
OnlyButtonsWrite ==
    (current_screen' # current_screen \/ brightness' # brightness) => ButtonThreadWrites

\* the brightness the handler read is the one it replaces
NoLostUpdate == offer.at = "set" => offer.b = brightness

\* the screen that was offered the press is the active one while it handles it
StillActive == offer.at \in {"handle", "set"} => offer.screen = current_screen

\* C34: once the workers run, only the button thread writes the screen index
\* and the brightness; so the brightness BrightnessScreen.handle_button read
\* is still the bus's when it writes the new one, and the screen whose handler
\* is offered a press is still the active screen while the handler runs.
C34_ButtonThreadOnlyWriter == [][OnlyButtonsWrite /\ NoLostUpdate' /\ StillActive']_vars

\* the brightness screen is about to write after two mutator calls of other
\* workers ran between its read and its write
C34_Witness ==
    /\ offer.at = "set"
    /\ offer.b = brightness
    /\ version = offer.v + MaxWorkerCalls
    /\ sensor # EmptyReading
    /\ mqtt["door"] # None

\* ------------------------------------------------------------------ claims on the backlight

\* C35: from startup until shutdown the backlight value last sent to the
\* display sink equals the brightness of the bus and so lies in [0.05, 1.0],
\* for every persisted or configured initial brightness and every sequence of
\* presses on the brightness screen.
C35_BacklightIsBrightness ==
    boot.pc = "running" => (backlight = brightness /\ backlight \in 50..1000)

\* the same for an initial brightness inside [0.05, 1.0]
BacklightIsBrightnessInRange ==
    (boot.pc = "running" /\ boot.initial_brightness \in 50..1000)
        => (backlight = brightness /\ backlight \in 50..1000)

\* a press the brightness screen consumes leaves the two equal, whatever the
\* initial brightness
PressMakesEqual ==
    (boot.pc = "running" /\ lastPress.consumed) => backlight = brightness

\* ------------------------------------------------------------------ claims on the stable reading

\* the poll of this step has left the button's counter at the threshold or above
CountedEnough(name) == counts'[name] >= DEBOUNCE_COUNT

\* C36: for each button, after a poll that leaves its consecutive-read counter
\* at the debounce threshold (2) or above, the stable reading equals the last
\* raw reading; the stable reading changes only in a poll that leaves the
\* counter at exactly 2.
C36_StableFollowsDebouncedReading ==
    [][\A name \in Polled :
        /\ CountedEnough(name) => stable_state'[name] = prev_state'[name]
        /\ stable_state'[name] # stable_state[name] => counts'[name] = DEBOUNCE_COUNT]_vars

\* a button has been read pressed MaxCount times in a row, more than the
\* threshold, and its stable reading is the pressed one it took at the second
C36_Witness ==
    \E name \in Polled :
        /\ counts[name] = MaxCount
        /\ counts[name] > DEBOUNCE_COUNT
        /\ prev_state[name]
        /\ stable_state[name]

\* ------------------------------------------------------------------ mutator calls that leave the data equal

MaxEqualCalls == 2

\* mutant: the version is raised when the call changed the data
CountsCallIfChanged(before, after) == before # after

\* state.py 47, 52, 79, 86: `self._version += 1` in every mutator, under no
\* condition
CountsCall(before, after) == TRUE

\* the brightness the bus holds: a limit or a value of two decimals
EqualBrightness == {50, 330, 1000}

\* the application runs: one or two screens, the door value has been received
InitEqual ==
    /\ lock = NoOwner
    /\ sensor = EmptyReading
    /\ mqtt = [k \in SubIds |-> IF k = "door" THEN Str("ON") ELSE None]
    /\ screen_count \in 1..2
    /\ current_screen = 0
    /\ version = 1
    /\ brightness \in EqualBrightness
    /\ InitWorkers /\ InitObs /\ InitAlertIdle /\ InitButtonsIdle
    /\ InitRender /\ InitPersist /\ InitLifeIdle /\ InitMqttIdle /\ InitExtraIdle

\* the data of the bus the calls below can change
StoredData == <<current_screen, brightness, mqtt>>

\* one whole call of next_screen, prev_screen, set_brightness or update_mqtt
\* that stores what is stored already
EqualCall ==
    /\ started < MaxEqualCalls
    /\ \E c \in TupleCalls \cup MqttCalls :
        /\ current_screen' = ScreenAfter(c, current_screen, screen_count)
        /\ brightness' = BrightnessAfter(c, brightness)
        /\ mqtt' = IF c.name = "update_mqtt" THEN SetKey(mqtt, c.sub_id, c.val) ELSE mqtt
        /\ StoredData' = StoredData
        /\ lastRet' = [lastRet EXCEPT !.name = c.name]
    /\ version' = IF CountsCall(StoredData, StoredData') THEN BumpVersion(version)
                  ELSE version
    /\ started' = started + 1
    /\ completed' = completed + 1
    /\ mutated' = TRUE
    /\ UNCHANGED <<lock, sensor, screen_count, writes, lastIo, lastNav>>

NextEqual ==
    \/ /\ RenderStep
       /\ UNCHANGED <<busVars, obsVars, persistVars>>
    \/ /\ WatcherStep
       /\ UNCHANGED <<busVars, obsVars, renderVars>>
    \/ /\ EqualCall
       /\ UNCHANGED <<shutdown, r_pc, seen_version, last_version, idx, image, display_frame,
                      raises, iter, persistVars>>

NextSpecEqual ==
    /\ NextEqual
    /\ UNCHANGED <<workerVars, alertVars, buttonVars, lifeVars, mqttVars, extraVars>>

InitSpecEqual == InitEqual

SpecEqual == InitSpecEqual /\ [][NextSpecEqual]_vars

\* ------------------------------------------------------------------ claims on the version as a count of calls

\* a step that is a mutator call
CallStep == started' = started + 1

\* C37: a mutator call that leaves the stored data equal (set_brightness with
\* the value stored or with a value the limits turn into it, update_mqtt with
\* the value stored, next_screen with one screen) raises the version by 1; the
\* iteration of the render loop that follows it renders, and an iteration with
\* no call before it once a frame was pushed does not; the persistence watcher,
\* which compares values, calls save for none of these calls.
C37_VersionCountsCalls ==
    /\ [][CallStep => (StoredData' = StoredData /\ version' = version + 1)]_vars
    /\ [](IterationAfterMutationEnded => iter.rendered)
    /\ []((r_pc = "wait" /\ iter.n >= 2 /\ ~iter.changed /\ ~iter.afterRaise)
            => ~iter.rendered)
    /\ [](w_saves = 0 /\ state_file = NoTuple)

\* MaxEqualCalls calls were made; the render loop has rendered for the last
\* and pushed the frame, and the watcher has polled after it and saved nothing
C37_Witness ==
    /\ started = MaxEqualCalls
    /\ version = 1 + MaxEqualCalls
    /\ r_pc = "wait" /\ iter.changed /\ iter.rendered /\ iter.pushed
    /\ last_version = version
    /\ w_pc = "test" /\ lastPoll = "skipped" /\ w_current = <<current_screen, brightness>>
    /\ w_saves = 0

====
